---- MODULE Spec2Model ----
(***************************************************************************)
(* A model of the clinical document processor of                          *)
(* src/clinical-pdf-intelligent.py: the document classifier, the lab      *)
(* extraction helpers, the chunk builder and the batch loop around        *)
(* process_pdf.                                                            *)
(*                                                                         *)
(* Texts are TLA+ strings; a character is a string of length one.  The    *)
(* library routines the program calls (str methods, re, float arithmetic) *)
(* are modelled by what they compute: substring search, a backtracking    *)
(* matcher for the regular expressions the program uses, and IEEE-754     *)
(* double arithmetic on 53-bit significands.                               *)
(***************************************************************************)
EXTENDS Integers, Sequences, FiniteSets, TLC

VARIABLES
    text,            \* classify_document: the text argument
    page_count,      \* classify_document: the page_count argument
    cls_pc,          \* classify_document: "call" before, "done" after the call
    cls_scores,      \* classify_document: the dict scores after the loop
    cls_result,      \* classify_document: the returned (type, confidence)
    cls_again,       \* classify_document: what a second call on the same
                     \* arguments returned
    doc_type,        \* create_specialized_chunks: the doc_type argument
    metadata,        \* create_specialized_chunks: the metadata argument
    chunk_size,      \* create_specialized_chunks: chunk_size, 0 before the call
    overlap,         \* create_specialized_chunks: overlap, 0 before the call
    chunk_pc,        \* create_specialized_chunks: "call" before, "done" after
    sentences,       \* create_specialized_chunks: the list sentences
    rollovers,       \* create_specialized_chunks: for each chunk closed in the loop,
                     \* current_chunk as it was closed, the sentence, and
                     \* current_chunk as it was seeded
    chunks,          \* create_specialized_chunks: the returned list
    chunks_again,    \* create_specialized_chunks: what a second call on the
                     \* same arguments returned
    strategy,        \* the extract_*_data method called on text
    ext_pc,          \* extract_*_data: "call" before, "returned" or "raised" after
    ext_result,      \* extract_*_data: the dict returned or the exception raised
    lab_pc,          \* extract_lab_report_data: "call" before, "done" after
    lab_data,        \* extract_lab_report_data: the returned dict data
    vals_pc,         \* _extract_lab_values: "call" before, "done" after
    platelet_matches, \* _extract_lab_values: the list platelet_matches
    wbc_matches,     \* _extract_lab_values: the list wbc_matches
    diagnostics,     \* _extract_lab_values: data['diagnostics'] at the return
    mode,            \* main: "cli" with arguments, "gui" without
    argv,            \* the files named on the command line or selected in the GUI
    pdf_files,       \* main: pdf_files; the GUI's self.selected_files
    file_idx,        \* the position of the batch loop in pdf_files
    batch_pc,        \* main / worker: "start", "loop", "done", "exit"
    proc_pc,         \* process_pdf: "idle", "open", "read", "classify", "extract",
                     \* "chunk", "save", "except"
    proc_strategy,   \* process_pdf: the extract_*_data method that was called
    proc_doc,        \* process_pdf: doc_type, confidence and the chunk count
    proc_error,      \* process_pdf: str(e) of the exception caught
    processed_files, \* extractor.processed_files
    failed_files,    \* extractor.failed_files
    self_doc_type_patterns, \* extractor.doc_type_patterns
    proc_out,        \* process_pdf: extracted_data, text_chunks and image_chunks
    vector_db_files, \* the vector_db_data written to <base_name>_vector_db.json
    process_btn,     \* IntelligentGUI: the state of the Process button
    selected_files,  \* IntelligentGUI: self.selected_files
    self_extractor,  \* IntelligentGUI: self.extractor, 0 for None
    extractors,      \* processed_files of each IntelligentClinicalExtractor made
    workers          \* the worker threads started by process_files

----------------------------------------------------------------------------
(* str: characters, case folding, slicing, search                          *)

Min(a, b) == IF a < b THEN a ELSE b

Max(a, b) == IF a < b THEN b ELSE a

UpperAlpha == {"A","B","C","D","E","F","G","H","I","J","K","L","M",
               "N","O","P","Q","R","S","T","U","V","W","X","Y","Z"}

LowerAlpha == {"a","b","c","d","e","f","g","h","i","j","k","l","m",
               "n","o","p","q","r","s","t","u","v","w","x","y","z"}

Digit == {"0","1","2","3","4","5","6","7","8","9"}

\* \s of the re module, and the characters str.strip() removes
Whitespace == {" ", "\t", "\n", "\r", "\f"}

\* \w of the re module
WordChar == UpperAlpha \cup LowerAlpha \cup Digit \cup {"_"}

UpperSeq == <<"A","B","C","D","E","F","G","H","I","J","K","L","M",
              "N","O","P","Q","R","S","T","U","V","W","X","Y","Z">>

LowerSeq == <<"a","b","c","d","e","f","g","h","i","j","k","l","m",
              "n","o","p","q","r","s","t","u","v","w","x","y","z">>

LowerOf == [c \in UpperAlpha |->
              LowerSeq[CHOOSE i \in 1..26 : UpperSeq[i] = c]]

\* the character at 1-based position i of s
CharAt(s, i) == SubSeq(s, i, i)

LowerChar(c) == IF c \in UpperAlpha THEN LowerOf[c] ELSE c

\* str.lower()
RECURSIVE Lower(_)
Lower(s) ==
    IF Len(s) = 0 THEN ""
    ELSE IF Len(s) = 1 THEN LowerChar(s)
    ELSE LET mid == Len(s) \div 2
         IN  Lower(SubSeq(s, 1, mid)) \o Lower(SubSeq(s, mid + 1, Len(s)))

\* s[:n]
Prefix(s, n) == SubSeq(s, 1, Min(n, Len(s)))

\* s[-n:] for n > 0
Suffix(s, n) == SubSeq(s, Max(1, Len(s) - n + 1), Len(s))

\* s.startswith(prefix)
StartsWith(s, prefix) == Len(prefix) <= Len(s) /\ SubSeq(s, 1, Len(prefix)) = prefix

\* sub in s
Contains(s, sub) ==
    \E i \in 1..(Len(s) - Len(sub) + 1) : SubSeq(s, i, i + Len(sub) - 1) = sub

\* the first of two positions that is one (0 stands for none)
FirstFound(i, j) == IF i # 0 THEN i ELSE j

\* the first position in lo..hi where sub occurs in s, 0 when there is none
RECURSIVE FindIn(_, _, _, _)
FindIn(s, sub, lo, hi) ==
    IF lo > hi THEN 0
    ELSE IF lo = hi THEN (IF SubSeq(s, lo, lo + Len(sub) - 1) = sub THEN lo ELSE 0)
    ELSE FirstFound(FindIn(s, sub, lo, (lo + hi) \div 2),
                    FindIn(s, sub, (lo + hi) \div 2 + 1, hi))

\* s.find(sub, from - 1) + 1: the first position >= from where sub occurs
\* in s, 0 when there is none
Find(s, sub, from) == FindIn(s, sub, from, Len(s) - Len(sub) + 1)

\* s.rfind(c) + 1 for a character c within lo..hi: the last position of c,
\* 0 when there is none
RECURSIVE LastIn(_, _, _, _)
LastIn(s, c, lo, hi) ==
    IF lo > hi THEN 0
    ELSE IF lo = hi THEN (IF CharAt(s, lo) = c THEN lo ELSE 0)
    ELSE FirstFound(LastIn(s, c, (lo + hi) \div 2 + 1, hi),
                    LastIn(s, c, lo, (lo + hi) \div 2))

\* s.endswith(suffix)
EndsWith(s, suffix) == Len(suffix) <= Len(s) /\ SubSeq(s, Len(s) - Len(suffix) + 1, Len(s)) = suffix

\* os.path.basename(path) for a path with / separators
Basename(path) == SubSeq(path, LastIn(path, "/", 1, Len(path)) + 1, Len(path))

\* the name without its last suffix; a leading dot starts no suffix
CutSuffix(name, dot) == IF dot > 1 THEN SubSeq(name, 1, dot - 1) ELSE name

StemOfName(name) == CutSuffix(name, LastIn(name, ".", 1, Len(name)))

\* Path(path).stem
Stem(path) == StemOfName(Basename(path))

\* s.replace(old, new) for single characters old and new
RECURSIVE ReplaceChar(_, _, _)
ReplaceChar(s, old, new) ==
    IF Len(s) = 0 THEN ""
    ELSE IF Len(s) = 1 THEN (IF s = old THEN new ELSE s)
    ELSE ReplaceChar(SubSeq(s, 1, Len(s) \div 2), old, new)
         \o ReplaceChar(SubSeq(s, Len(s) \div 2 + 1, Len(s)), old, new)

\* s.split(sep): the pieces between the occurrences of sep, found left to
\* right without overlap
RECURSIVE Split(_, _), SplitAt(_, _, _)
Split(s, sep) == SplitAt(s, sep, Find(s, sep, 1))

SplitAt(s, sep, i) ==
    IF i = 0 THEN <<s>>
    ELSE <<SubSeq(s, 1, i - 1)>> \o Split(SubSeq(s, i + Len(sep), Len(s)), sep)

\* s.lstrip() and s.rstrip()
RECURSIVE LStrip(_), RStrip(_)
LStrip(s) ==
    IF Len(s) > 0 /\ CharAt(s, 1) \in Whitespace THEN LStrip(SubSeq(s, 2, Len(s))) ELSE s

RStrip(s) ==
    IF Len(s) > 0 /\ CharAt(s, Len(s)) \in Whitespace
    THEN RStrip(SubSeq(s, 1, Len(s) - 1)) ELSE s

\* s.strip()
Strip(s) == LStrip(RStrip(s))

\* s without the occurrences of the character c: s.replace(c, '')
RECURSIVE RemoveChar(_, _)
RemoveChar(s, c) ==
    IF Len(s) = 0 THEN ""
    ELSE IF Len(s) = 1 THEN (IF s = c THEN "" ELSE s)
    ELSE RemoveChar(SubSeq(s, 1, Len(s) \div 2), c)
         \o RemoveChar(SubSeq(s, Len(s) \div 2 + 1, Len(s)), c)

DigitValue(c) == CHOOSE d \in 0..9 : CharAt("0123456789", d + 1) = c

\* whether int(s) succeeds for a string of digits: not for the empty string
IsInt(s) == Len(s) > 0 /\ \A i \in 1..Len(s) : CharAt(s, i) \in Digit

\* int(s) for a non-empty string of digits
RECURSIVE ParseInt(_)
ParseInt(s) ==
    IF Len(s) = 1 THEN DigitValue(s)
    ELSE ParseInt(SubSeq(s, 1, Len(s) - 1)) * 10 + DigitValue(CharAt(s, Len(s)))

\* str(n) for an int n >= 0
RECURSIVE IntToStr(_)
IntToStr(n) ==
    IF n < 10 THEN CharAt("0123456789", n + 1)
    ELSE IntToStr(n \div 10) \o CharAt("0123456789", (n % 10) + 1)

----------------------------------------------------------------------------
(* re: a backtracking matcher for the expressions the program uses.        *)
(* A pattern is a sequence of nodes:                                       *)
(*   Lit(s)            the literal string s                                *)
(*   Rep(S, lo, hi)    [S]{lo,hi}, greedy; hi = Unbounded for no limit     *)
(*   NRep(S, lo, hi)   [^S]{lo,hi}, greedy                                 *)
(*   Alt(<<p1,...>>)   (?:p1|p2|...), alternatives tried left to right;    *)
(*                     an optional group ends with the empty pattern       *)
(*   AtEnd             $                                                   *)
(*   WordBoundary      \b                                                  *)
(*   Mark(k)           records the position as mark k: the boundaries of   *)
(*                     capturing groups                                    *)

Unbounded == 0 - 1

Lit(s) == [t |-> "lit", s |-> s]

Rep(S, lo, hi) == [t |-> "cls", set |-> S, neg |-> FALSE, lo |-> lo, hi |-> hi]

NRep(S, lo, hi) == [t |-> "cls", set |-> S, neg |-> TRUE, lo |-> lo, hi |-> hi]

Alt(alts) == [t |-> "alt", alts |-> alts]

AtEnd == [t |-> "at", a |-> "end"]

WordBoundary == [t |-> "at", a |-> "wb"]

Mark(k) == [t |-> "mark", k |-> k]

NoMatch == [ok |-> FALSE, start |-> 0, end |-> 0, marks |-> <<>>]

InClass(n, c) == IF n.neg THEN c \notin n.set ELSE c \in n.set

\* the first position in lo..hi of s whose character is not in the class
\* of n, 0 when there is none
RECURSIVE FirstOutside(_, _, _, _)
FirstOutside(n, s, lo, hi) ==
    IF lo > hi THEN 0
    ELSE IF lo = hi THEN (IF InClass(n, CharAt(s, lo)) THEN 0 ELSE lo)
    ELSE FirstFound(FirstOutside(n, s, lo, (lo + hi) \div 2),
                    FirstOutside(n, s, (lo + hi) \div 2 + 1, hi))

RunLength(pos, last, outside) == IF outside = 0 THEN last - pos + 1 ELSE outside - pos

RunUpTo(n, s, pos, last) == RunLength(pos, last, FirstOutside(n, s, pos, last))

\* how many characters from pos on are in the class of n, at most n.hi
Run(n, s, pos) ==
    RunUpTo(n, s, pos, IF n.hi = Unbounded THEN Len(s) ELSE Min(Len(s), pos + n.hi - 1))

IsWordAt(s, i) == i >= 1 /\ i <= Len(s) /\ CharAt(s, i) \in WordChar

\* $ matches at the end and before a newline that ends the string;
\* \b matches between a word character and a non-word character
AtHolds(a, s, pos) ==
    IF a = "end"
    THEN pos = Len(s) + 1 \/ (pos = Len(s) /\ CharAt(s, pos) = "\n")
    ELSE IsWordAt(s, pos - 1) # IsWordAt(s, pos)

\* the first attempt if it matched, else the next one (evaluated only then)
OrElse(m, next) == IF m.ok THEN m ELSE next

\* the match of the nodes in stack at position pos of s, as the backtracking
\* of re finds it: greedy repeats give back one character at a time
RECURSIVE MatchHere(_, _, _, _), MatchNode(_, _, _, _, _)
RECURSIVE TryCount(_, _, _, _, _, _), TryAlts(_, _, _, _, _, _)
MatchHere(stack, s, pos, marks) ==
    IF stack = <<>> THEN [ok |-> TRUE, start |-> 0, end |-> pos, marks |-> marks]
    ELSE MatchNode(Head(stack), Tail(stack), s, pos, marks)

MatchNode(n, rest, s, pos, marks) ==
    CASE n.t = "lit" ->
            IF pos + Len(n.s) - 1 <= Len(s) /\ SubSeq(s, pos, pos + Len(n.s) - 1) = n.s
            THEN MatchHere(rest, s, pos + Len(n.s), marks)
            ELSE NoMatch
      [] n.t = "cls" -> TryCount(rest, s, pos, marks, n.lo, Run(n, s, pos))
      [] n.t = "alt" -> TryAlts(n.alts, 1, rest, s, pos, marks)
      [] n.t = "at" ->
            IF AtHolds(n.a, s, pos) THEN MatchHere(rest, s, pos, marks) ELSE NoMatch
      [] n.t = "mark" -> MatchHere(rest, s, pos, [marks EXCEPT ![n.k] = pos])

\* a greedy repetition: the counts hi, hi - 1, ..., lo are tried in turn
TryCount(rest, s, pos, marks, lo, hi) ==
    IF lo > hi THEN NoMatch
    ELSE IF lo = hi THEN MatchHere(rest, s, pos + lo, marks)
    ELSE OrElse(TryCount(rest, s, pos, marks, (lo + hi) \div 2 + 1, hi),
                TryCount(rest, s, pos, marks, lo, (lo + hi) \div 2))

TryAlts(alts, i, rest, s, pos, marks) ==
    IF i > Len(alts) THEN NoMatch
    ELSE OrElse(MatchHere(alts[i] \o rest, s, pos, marks),
                TryAlts(alts, i + 1, rest, s, pos, marks))

\* lower-cases the literals and classes of a pattern
RECURSIVE FoldPattern(_), FoldNode(_)
FoldPattern(pat) == [i \in 1..Len(pat) |-> FoldNode(pat[i])]

FoldNode(n) ==
    CASE n.t = "lit" -> [n EXCEPT !.s = Lower(n.s)]
      [] n.t = "cls" -> [n EXCEPT !.set = {LowerChar(c) : c \in n.set}]
      [] n.t = "alt" -> [n EXCEPT !.alts = [j \in 1..Len(n.alts) |-> FoldPattern(n.alts[j])]]
      [] OTHER -> n

NoMarks(nmarks) == [k \in 1..nmarks |-> 0]

\* the leftmost match of pat in s that starts in lo..hi
RECURSIVE SearchIn(_, _, _, _, _)
SearchIn(pat, s, lo, hi, nmarks) ==
    IF lo > hi THEN NoMatch
    ELSE IF lo = hi THEN [MatchHere(pat, s, lo, NoMarks(nmarks)) EXCEPT !.start = lo]
    ELSE OrElse(SearchIn(pat, s, lo, (lo + hi) \div 2, nmarks),
                SearchIn(pat, s, (lo + hi) \div 2 + 1, hi, nmarks))

\* the leftmost match of pat in s that starts at from or later
SearchFrom(pat, s, from, nmarks) == SearchIn(pat, s, from, Len(s) + 1, nmarks)

\* re.search(pat, s) is not None
MatchesAnywhere(pat, s) == \E from \in 1..(Len(s) + 1) : MatchHere(pat, s, from, <<>>).ok

Matches(pat, s, ignorecase) ==
    IF ignorecase THEN MatchesAnywhere(FoldPattern(pat), Lower(s))
    ELSE MatchesAnywhere(pat, s)

\* re.search(pat, s) / re.search(pat, s, re.IGNORECASE): the match object;
\* positions refer to s in both cases
re_search(pat, s, ignorecase, nmarks) ==
    IF ignorecase THEN SearchFrom(FoldPattern(pat), Lower(s), 1, nmarks)
    ELSE SearchFrom(pat, s, 1, nmarks)

\* re.finditer(pat, s): the matches left to right, each search starting
\* where the previous match ended
RECURSIVE FindAllFrom(_, _, _, _), MatchesAfter(_, _, _, _)
FindAllFrom(pat, s, from, nmarks) ==
    MatchesAfter(pat, s, SearchFrom(pat, s, from, nmarks), nmarks)

MatchesAfter(pat, s, m, nmarks) ==
    IF ~m.ok THEN <<>>
    ELSE <<m>> \o FindAllFrom(pat, s, IF m.end > m.start THEN m.end ELSE m.end + 1, nmarks)

re_finditer(pat, s, ignorecase, nmarks) ==
    IF ignorecase THEN FindAllFrom(FoldPattern(pat), Lower(s), 1, nmarks)
    ELSE FindAllFrom(pat, s, 1, nmarks)

\* the text of the group between marks open and close, "" for a group that
\* took no part in the match
Group(s, m, open, close) ==
    IF m.marks[open] = 0 \/ m.marks[close] = 0 THEN ""
    ELSE SubSeq(s, m.marks[open], m.marks[close] - 1)

\* match.group(0)
Group0(s, m) == SubSeq(s, m.start, m.end - 1)

----------------------------------------------------------------------------
(* float: IEEE-754 binary64 arithmetic with round-to-nearest-even on the   *)
(* non-negative normal numbers the program computes.  A significand is a   *)
(* natural number in little-endian limbs of LimbBits bits; a float is      *)
(* [m |-> significand, e |-> exponent] for m * 2^e with 2^52 <= m < 2^53,  *)
(* and FZero for 0.0.                                                      *)

LimbBits == 14

LimbBase == 2 ^ LimbBits

MantBits == 53

ZeroLimbs == <<0, 0, 0, 0>>

FZero == [m |-> ZeroLimbs, e |-> 0]

\* the number of bits of n, 0 <= n < LimbBase
SmallBitLen(n) == CHOOSE b \in 0..LimbBits : n < 2 ^ b /\ (b = 0 \/ n >= 2 ^ (b - 1))

\* the index of the highest non-zero limb, 0 for zero
TopLimb(a) ==
    IF \A j \in 1..Len(a) : a[j] = 0 THEN 0
    ELSE CHOOSE j \in 1..Len(a) : a[j] # 0 /\ \A k \in (j + 1)..Len(a) : a[k] = 0

BitsUpTo(a, top) == IF top = 0 THEN 0 ELSE LimbBits * (top - 1) + SmallBitLen(a[top])

BigBitLen(a) == BitsUpTo(a, TopLimb(a))

\* bit i (from 0) of a
BigBit(a, i) ==
    IF i \div LimbBits + 1 > Len(a) THEN 0
    ELSE (a[i \div LimbBits + 1] \div 2 ^ (i % LimbBits)) % 2

\* whether a has a bit set below bit i
BigAnyBelow(a, i) ==
    \E j \in 1..Len(a) :
        /\ LimbBits * (j - 1) < i
        /\ IF LimbBits * j <= i THEN a[j] # 0
           ELSE a[j] % 2 ^ (i - LimbBits * (j - 1)) # 0

\* a shifted right by q limbs and r < LimbBits bits
ShiftRightBy(a, q, r) ==
    [j \in 1..(Len(a) - q) |->
        (a[j + q] \div 2 ^ r)
        + (IF j + q + 1 <= Len(a) THEN (a[j + q + 1] % 2 ^ r) * 2 ^ (LimbBits - r) ELSE 0)]

BigShiftRight(a, sh) == ShiftRightBy(a, sh \div LimbBits, sh % LimbBits)

\* a shifted left by q limbs and r < LimbBits bits
ShiftLeftBy(a, q, r) ==
    [j \in 1..(Len(a) + q + 1) |->
        IF j <= q THEN 0
        ELSE (IF j - q <= Len(a) THEN (a[j - q] * 2 ^ r) % LimbBase ELSE 0)
             + (IF j - q > 1 THEN (a[j - q - 1] * 2 ^ r) \div LimbBase ELSE 0)]

BigShiftLeft(a, sh) == ShiftLeftBy(a, sh \div LimbBits, sh % LimbBits)

RECURSIVE BigAddFrom(_, _, _, _), BigAddLimb(_, _, _, _)
BigAddFrom(a, b, j, carry) ==
    IF j > Max(Len(a), Len(b)) THEN <<carry>>
    ELSE BigAddLimb(a, b, j, (IF j <= Len(a) THEN a[j] ELSE 0)
                             + (IF j <= Len(b) THEN b[j] ELSE 0) + carry)

BigAddLimb(a, b, j, t) == <<t % LimbBase>> \o BigAddFrom(a, b, j + 1, t \div LimbBase)

BigAdd(a, b) == BigAddFrom(a, b, 1, 0)

\* the sum of a[i] * b[j] over the limbs with (i - 1) + (j - 1) = k
RECURSIVE ConvSum(_, _, _, _)
ConvSum(a, b, k, i) ==
    IF i > Len(a) THEN 0
    ELSE (IF k - i + 2 \in 1..Len(b) THEN a[i] * b[k - i + 2] ELSE 0)
         + ConvSum(a, b, k, i + 1)

RECURSIVE BigMulFrom(_, _, _, _), BigMulLimb(_, _, _, _)
BigMulFrom(a, b, k, carry) ==
    IF k = Len(a) + Len(b) THEN <<>>
    ELSE BigMulLimb(a, b, k, ConvSum(a, b, k, 1) + carry)

BigMulLimb(a, b, k, t) == <<t % LimbBase>> \o BigMulFrom(a, b, k + 1, t \div LimbBase)

BigMul(a, b) == BigMulFrom(a, b, 0, 0)

\* quotient and remainder of a by n, 0 < n < LimbBase
RECURSIVE BigDivFrom(_, _, _, _), BigDivLimb(_, _, _)
BigDivFrom(a, n, j, rem) ==
    IF j = 0 THEN [q |-> <<>>, r |-> rem]
    ELSE BigDivLimb(n, rem * LimbBase + a[j],
                    BigDivFrom(a, n, j - 1, (rem * LimbBase + a[j]) % n))

BigDivLimb(n, cur, lower) == [q |-> lower.q \o <<cur \div n>>, r |-> lower.r]

BigDivSmall(a, n) == BigDivFrom(a, n, Len(a), 0)

\* a < b, for significands of the same number of limbs
BigLess(a, b) ==
    \E j \in 1..Len(a) : a[j] < b[j] /\ \A k \in (j + 1)..Len(a) : a[k] = b[k]

Mant(a) == SubSeq(a \o ZeroLimbs, 1, Len(ZeroLimbs))

\* the float r * 2^e for a significand r of MantBits or MantBits + 1 bits
Renormalize(r, e) ==
    IF BigBit(r, MantBits) = 1 THEN [m |-> Mant(BigShiftRight(r, 1)), e |-> e + 1]
    ELSE [m |-> Mant(r), e |-> e]

\* round to nearest, ties to even: up when the first dropped bit is set and
\* a lower bit, the sticky flag or the last kept bit is set
RoundsUp(big, sh, sticky) ==
    /\ BigBit(big, sh - 1) = 1
    /\ (sticky \/ BigAnyBelow(big, sh - 1) \/ BigBit(big, sh) = 1)

RoundShifted(big, e, sticky, sh) ==
    Renormalize(IF RoundsUp(big, sh, sticky) THEN BigAdd(BigShiftRight(big, sh), <<1>>)
                ELSE BigShiftRight(big, sh),
                e + sh)

RoundBits(big, e, sticky, b) ==
    IF b = 0 THEN FZero
    ELSE IF b <= MantBits
    THEN [m |-> Mant(BigShiftLeft(big, MantBits - b)), e |-> e - (MantBits - b)]
    ELSE RoundShifted(big, e, sticky, b - MantBits)

\* the float nearest to big * 2^e (ties to even); sticky says that the exact
\* value lies strictly above big * 2^e and below (big + 1) * 2^e
RoundToFloat(big, e, sticky) == RoundBits(big, e, sticky, BigBitLen(big))

\* float(n) for an int 0 <= n < LimbBase
FromNat(n) == RoundToFloat(<<n>>, 0, FALSE)

\* x * y
FMul(x, y) ==
    IF x = FZero \/ y = FZero THEN FZero
    ELSE RoundToFloat(BigMul(x.m, y.m), x.e + y.e, FALSE)

\* x / n for an int 0 < n < LimbBase
RoundQuotient(d, e) == RoundToFloat(d.q, e, d.r # 0)

FDivNat(x, n) ==
    IF x = FZero THEN FZero
    ELSE RoundQuotient(BigDivSmall(ZeroLimbs \o x.m, n), x.e - LimbBits * Len(ZeroLimbs))

\* x + y
\* x + y for x.e >= y.e
AddAligned(x, y) == RoundToFloat(BigAdd(BigShiftLeft(x.m, x.e - y.e), y.m), y.e, FALSE)

FAdd(x, y) ==
    IF x = FZero THEN y
    ELSE IF y = FZero THEN x
    ELSE AddAligned(IF x.e >= y.e THEN x ELSE y, IF x.e >= y.e THEN y ELSE x)

\* x < y
FLess(x, y) ==
    IF y = FZero THEN FALSE
    ELSE IF x = FZero THEN TRUE
    ELSE x.e < y.e \/ (x.e = y.e /\ BigLess(x.m, y.m))

\* x <= y
FLeq(x, y) == x = y \/ FLess(x, y)

\* the float literal num/den written in decimal (0.3 is Decimal(3, 10))
Decimal(num, den) == FDivNat(FromNat(num), den)

----------------------------------------------------------------------------
(* DocumentType and the registry self.doc_type_patterns                    *)

CASE_REPORT == "case_report"
TEXTBOOK == "textbook"
CLINICAL_GUIDELINE == "guideline"
DISCHARGE_SUMMARY == "discharge_summary"
RESEARCH_ARTICLE == "research_article"
LAB_REPORT == "lab_report"
RADIOLOGY_REPORT == "radiology_report"
UNKNOWN == "unknown"

DocumentType == {CASE_REPORT, TEXTBOOK, CLINICAL_GUIDELINE, DISCHARGE_SUMMARY,
                 RESEARCH_ARTICLE, LAB_REPORT, RADIOLOGY_REPORT, UNKNOWN}

One(S) == Rep(S, 1, 1)
Opt(S) == Rep(S, 0, 1)
Star(S) == Rep(S, 0, Unbounded)
Plus(S) == Rep(S, 1, Unbounded)

\* the entries in insertion order; an absent min_pages or max_pages is the
\* empty set
doc_type_patterns == <<
    [type |-> CASE_REPORT,
     keywords |-> <<"case report", "case presentation", "we report", "we present",
                    "a case of", "rare case", "unusual presentation">>,
     patterns |-> <<
        \* [Aa]\s+\d{1,3}[\s\-]*year[\s\-]*old
        <<One({"A", "a"}), Plus(Whitespace), Rep(Digit, 1, 3),
          Star(Whitespace \cup {"-"}), Lit("year"),
          Star(Whitespace \cup {"-"}), Lit("old")>>,
        \* presented\s+with
        <<Lit("presented"), Plus(Whitespace), Lit("with")>>,
        \* was\s+diagnosed\s+with
        <<Lit("was"), Plus(Whitespace), Lit("diagnosed"), Plus(Whitespace), Lit("with")>> >>,
     min_pages |-> {}, max_pages |-> {15}, weight |-> Decimal(10, 10)],
    [type |-> TEXTBOOK,
     keywords |-> <<"chapter", "section", "learning objectives", "review questions",
                    "summary", "key points", "bibliography", "references", "edition">>,
     patterns |-> <<
        \* Chapter\s+\d+
        <<Lit("Chapter"), Plus(Whitespace), Plus(Digit)>>,
        \* Section\s+\d+\.\d+
        <<Lit("Section"), Plus(Whitespace), Plus(Digit), Lit("."), Plus(Digit)>>,
        \* Figure\s+\d+\.\d+
        <<Lit("Figure"), Plus(Whitespace), Plus(Digit), Lit("."), Plus(Digit)>> >>,
     min_pages |-> {30}, max_pages |-> {}, weight |-> Decimal(8, 10)],
    [type |-> CLINICAL_GUIDELINE,
     keywords |-> <<"guideline", "recommendation", "protocol", "consensus",
                    "algorithm", "evidence level", "grade", "standard of care">>,
     patterns |-> <<
        \* Level\s+[A-C]\s+evidence
        <<Lit("Level"), Plus(Whitespace), One({"A", "B", "C"}), Plus(Whitespace),
          Lit("evidence")>>,
        \* Grade\s+\d+[A-C]?\s+recommendation
        <<Lit("Grade"), Plus(Whitespace), Plus(Digit), Opt({"A", "B", "C"}),
          Plus(Whitespace), Lit("recommendation")>>,
        \* should\s+be\s+(?:considered|performed|avoided)
        <<Lit("should"), Plus(Whitespace), Lit("be"), Plus(Whitespace),
          Alt(<< <<Lit("considered")>>, <<Lit("performed")>>, <<Lit("avoided")>> >>)>> >>,
     min_pages |-> {}, max_pages |-> {}, weight |-> Decimal(9, 10)],
    [type |-> DISCHARGE_SUMMARY,
     keywords |-> <<"discharge", "admission", "hospital course", "discharge diagnosis",
                    "discharge medications", "follow up", "disposition">>,
     patterns |-> <<
        \* Date\s+of\s+Admission
        <<Lit("Date"), Plus(Whitespace), Lit("of"), Plus(Whitespace), Lit("Admission")>>,
        \* Date\s+of\s+Discharge
        <<Lit("Date"), Plus(Whitespace), Lit("of"), Plus(Whitespace), Lit("Discharge")>>,
        \* Discharge\s+Diagnosis
        <<Lit("Discharge"), Plus(Whitespace), Lit("Diagnosis")>> >>,
     min_pages |-> {}, max_pages |-> {10}, weight |-> Decimal(95, 100)],
    [type |-> RESEARCH_ARTICLE,
     keywords |-> <<"abstract", "introduction", "methods", "results", "discussion",
                    "conclusion", "participants", "study design", "statistical analysis">>,
     patterns |-> <<
        \* [Pp]\s*[<=]\s*0\.\d+
        <<One({"P", "p"}), Star(Whitespace), One({"<", "="}), Star(Whitespace),
          Lit("0."), Plus(Digit)>>,
        \* [Nn]\s*=\s*\d+
        <<One({"N", "n"}), Star(Whitespace), Lit("="), Star(Whitespace), Plus(Digit)>>,
        \* 95%\s+CI
        <<Lit("95%"), Plus(Whitespace), Lit("CI")>> >>,
     min_pages |-> {}, max_pages |-> {}, weight |-> Decimal(85, 100)],
    [type |-> LAB_REPORT,
     keywords |-> <<"laboratory", "specimen", "reference range", "abnormal",
                    "test name", "result", "units", "collected">>,
     patterns |-> <<
        \* \d+\.\d+\s*-\s*\d+\.\d+
        <<Plus(Digit), Lit("."), Plus(Digit), Star(Whitespace), Lit("-"),
          Star(Whitespace), Plus(Digit), Lit("."), Plus(Digit)>>,
        \* [HL]\s*$
        <<One({"H", "L"}), Star(Whitespace), AtEnd>>,
        \* mg/dL|mmol/L|IU/mL
        <<Alt(<< <<Lit("mg/dL")>>, <<Lit("mmol/L")>>, <<Lit("IU/mL")>> >>)>> >>,
     min_pages |-> {}, max_pages |-> {5}, weight |-> Decimal(9, 10)],
    [type |-> RADIOLOGY_REPORT,
     keywords |-> <<"impression", "findings", "technique", "comparison",
                    "indication", "ct", "mri", "xray", "ultrasound">>,
     patterns |-> <<
        \* IMPRESSION:
        <<Lit("IMPRESSION:")>>,
        \* FINDINGS:
        <<Lit("FINDINGS:")>>,
        \* TECHNIQUE:
        <<Lit("TECHNIQUE:")>> >>,
     min_pages |-> {}, max_pages |-> {5}, weight |-> Decimal(95, 100)] >>

----------------------------------------------------------------------------
(* classify_document                                                       *)

\* text[:3000]
ClassifyWindow == 3000

\* the float literals of classify_document
KeywordScore == FromNat(1)
PatternScore == Decimal(15, 10)
MinPagesPenalty == Decimal(3, 10)
MaxPagesPenalty == Decimal(5, 10)
MinConfidence == Decimal(2, 10)
TextbookFallbackConfidence == Decimal(6, 10)
CaseReportFallbackConfidence == Decimal(4, 10)

\* for keyword in indicators['keywords']: if keyword in first_3k_chars: ...
RECURSIVE CheckKeywords(_, _, _, _)
CheckKeywords(keywords, i, window, acc) ==
    IF i > Len(keywords) THEN acc
    ELSE CheckKeywords(keywords, i + 1, window,
            IF Contains(window, keywords[i])
            THEN [score |-> FAdd(acc.score, KeywordScore), matches |-> acc.matches + 1]
            ELSE acc)

\* for pattern in indicators['patterns']: if re.search(pattern, ..., re.IGNORECASE): ...
RECURSIVE CheckPatterns(_, _, _, _)
CheckPatterns(patterns, i, window, acc) ==
    IF i > Len(patterns) THEN acc
    ELSE CheckPatterns(patterns, i + 1, window,
            IF Matches(patterns[i], window, TRUE)
            THEN [score |-> FAdd(acc.score, PatternScore), matches |-> acc.matches + 1]
            ELSE acc)

\* if 'min_pages' in indicators and page_count < indicators['min_pages']
ApplyMinPages(indicators, pages, score) ==
    IF \E m \in indicators.min_pages : pages < m THEN FMul(score, MinPagesPenalty)
    ELSE score

\* if 'max_pages' in indicators and page_count > indicators['max_pages']
ApplyMaxPages(indicators, pages, score) ==
    IF \E m \in indicators.max_pages : pages > m THEN FMul(score, MaxPagesPenalty)
    ELSE score

\* the normalization without the weight of the type
NormalizeNoWeight(indicators, score) ==
    FDivNat(score, Max(Len(indicators.keywords) + Len(indicators.patterns), 1))

\* score / max(len(keywords) + len(patterns), 1) * weight
Normalize(indicators, score) ==
    FMul(FDivNat(score, Max(Len(indicators.keywords) + Len(indicators.patterns), 1)),
         indicators.weight)

\* the end of one pass of the loop, from the score and the matches counted:
\* the item stored in scores, if any
StoreScore(indicators, pages, acc) ==
    IF acc.matches > 0
    THEN <<[type |-> indicators.type,
            score |-> Normalize(indicators,
                        ApplyMaxPages(indicators, pages,
                            ApplyMinPages(indicators, pages, acc.score)))]>>
    ELSE <<>>

\* one pass of the loop over self.doc_type_patterns.items()
ScoreType(indicators, window, pages) ==
    StoreScore(indicators, pages,
        CheckPatterns(indicators.patterns, 1, window,
            CheckKeywords(indicators.keywords, 1, window,
                          [score |-> FZero, matches |-> 0])))

\* the dict scores after the loop, as its items in insertion order: only
\* the types with a match are stored
RECURSIVE ScoresFrom(_, _, _)
ScoresFrom(i, window, pages) ==
    IF i > Len(self_doc_type_patterns) THEN <<>>
    ELSE ScoreType(self_doc_type_patterns[i], window, pages)
         \o ScoresFrom(i + 1, window, pages)

Scores(window, pages) == ScoresFrom(1, window, pages)

\* the last item with the largest score
RECURSIVE MaxItemLastFrom(_, _, _)
MaxItemLastFrom(items, i, best) ==
    IF i > Len(items) THEN best
    ELSE MaxItemLastFrom(items, i + 1,
                         IF FLeq(best.score, items[i].score) THEN items[i] ELSE best)

\* max(scores.items(), key=lambda x: x[1]): the first item with the largest score
RECURSIVE MaxItemFrom(_, _, _)
MaxItemFrom(items, i, best) ==
    IF i > Len(items) THEN best
    ELSE MaxItemFrom(items, i + 1, IF FLess(best.score, items[i].score) THEN items[i] ELSE best)

MaxItem(items) == MaxItemFrom(items, 2, items[1])

\* the fallback with the two tests in the other order
FallbackTextFirst(window, pages) ==
    IF Contains(window, "patient") /\ Contains(window, "diagnosis")
    THEN [type |-> CASE_REPORT, confidence |-> CaseReportFallbackConfidence]
    ELSE IF pages > 50 THEN [type |-> TEXTBOOK, confidence |-> TextbookFallbackConfidence]
    ELSE [type |-> UNKNOWN, confidence |-> FZero]

\* the fallback with page_count >= 50 for page_count > 50
FallbackFrom50(window, pages) ==
    IF pages >= 50 THEN [type |-> TEXTBOOK, confidence |-> TextbookFallbackConfidence]
    ELSE IF Contains(window, "patient") /\ Contains(window, "diagnosis")
    THEN [type |-> CASE_REPORT, confidence |-> CaseReportFallbackConfidence]
    ELSE [type |-> UNKNOWN, confidence |-> FZero]

\* the fallback returning the wrong member for the patient/diagnosis case
FallbackWrongMember(window, pages) ==
    IF pages > 50 THEN [type |-> TEXTBOOK, confidence |-> TextbookFallbackConfidence]
    ELSE IF Contains(window, "patient") /\ Contains(window, "diagnosis")
    THEN [type |-> UNKNOWN, confidence |-> CaseReportFallbackConfidence]
    ELSE [type |-> UNKNOWN, confidence |-> FZero]

\* the fallback classification based on structure
Fallback(window, pages) ==
    IF pages > 50 THEN [type |-> TEXTBOOK, confidence |-> TextbookFallbackConfidence]
    ELSE IF Contains(window, "patient") /\ Contains(window, "diagnosis")
    THEN [type |-> CASE_REPORT, confidence |-> CaseReportFallbackConfidence]
    ELSE [type |-> UNKNOWN, confidence |-> FZero]

\* the whole text, case-folded
WholeTextFolded(txt) == Lower(txt)

\* first_3k_chars = text[:3000].lower()
first_3k_chars(txt) == Lower(Prefix(txt, ClassifyWindow))

\* if best_type[1] > 0.2: return best_type[0], best_type[1]
ReturnBest(best, window, pages) ==
    IF FLess(MinConfidence, best.score) THEN [type |-> best.type, confidence |-> best.score]
    ELSE Fallback(window, pages)

\* if scores: best_type = max(...)
BestOrFallback(scores, window, pages) ==
    IF scores # <<>> THEN ReturnBest(MaxItem(scores), window, pages)
    ELSE Fallback(window, pages)

ClassifyWindowed(window, pages) == BestOrFallback(Scores(window, pages), window, pages)

classify_document(txt, pages) == ClassifyWindowed(first_3k_chars(txt), pages)

----------------------------------------------------------------------------
(* create_specialized_chunks                                               *)

\* the table without the branch for lab reports
ChunkParamsNoLab(dt) ==
    CASE dt = CASE_REPORT -> [chunk_size |-> 512, overlap |-> 128]
      [] dt = TEXTBOOK -> [chunk_size |-> 768, overlap |-> 200]
      [] dt = CLINICAL_GUIDELINE -> [chunk_size |-> 400, overlap |-> 100]
      [] OTHER -> [chunk_size |-> 512, overlap |-> 128]

\* chunk_size and overlap by document type
ChunkParams(dt) ==
    CASE dt = CASE_REPORT -> [chunk_size |-> 512, overlap |-> 128]
      [] dt = TEXTBOOK -> [chunk_size |-> 768, overlap |-> 200]
      [] dt = CLINICAL_GUIDELINE -> [chunk_size |-> 400, overlap |-> 100]
      [] dt = LAB_REPORT -> [chunk_size |-> 256, overlap |-> 50]
      [] OTHER -> [chunk_size |-> 512, overlap |-> 128]

\* A dict of metadata is a record whose doc_id is the set of the values
\* under the key: empty when the key is absent.
\* metadata.get('doc_id', 'unknown')
DocIdOf(md) == IF md.doc_id = {} THEN "unknown" ELSE CHOOSE d \in md.doc_id : TRUE

\* the chunk numbered on from the documents processed so far
MakeChunkCounted(current_chunk, chunk_id, dt, md) ==
    [chunk_id |-> DocIdOf(md) \o "_" \o IntToStr(chunk_id + Len(processed_files)),
     text |-> Strip(current_chunk),
     metadata |-> [doc_id |-> md.doc_id,
                   chunk_index |-> chunk_id + Len(processed_files),
                   chunk_type |-> "text",
                   document_type |-> dt]]

\* the dict appended to chunks
MakeChunk(current_chunk, chunk_id, dt, md) ==
    [chunk_id |-> DocIdOf(md) \o "_" \o IntToStr(chunk_id),
     text |-> Strip(current_chunk),
     metadata |-> [doc_id |-> md.doc_id,
                   chunk_index |-> chunk_id,
                   chunk_type |-> "text",
                   document_type |-> dt]]

\* the seed taken from the text of the chunk emitted
SeedNextFromText(current_chunk, sentence, ov) ==
    IF Len(Strip(current_chunk)) > ov
    THEN Suffix(Strip(current_chunk), ov) \o sentence \o ". "
    ELSE sentence \o ". "

\* current_chunk after a chunk was emitted: the overlap for context
\* continuity, then the sentence
SeedNext(current_chunk, sentence, ov) ==
    IF Len(current_chunk) > ov
    THEN Suffix(current_chunk, ov) \o sentence \o ". "
    ELSE sentence \o ". "

\* the pass without chunk_id += 1
ChunkSentenceSameId(st, sentence, p, dt, md) ==
    IF Len(st.current_chunk) + Len(sentence) < p.chunk_size
    THEN [st EXCEPT !.current_chunk = @ \o sentence \o ". "]
    ELSE IF st.current_chunk # ""
    THEN [current_chunk |-> SeedNext(st.current_chunk, sentence, p.overlap),
          chunk_id |-> st.chunk_id,
          chunks |-> Append(st.chunks, MakeChunk(st.current_chunk, st.chunk_id, dt, md))]
    ELSE st

\* one pass of the loop over sentences; st holds current_chunk, chunk_id
\* and chunks
ChunkSentence(st, sentence, p, dt, md) ==
    IF Len(st.current_chunk) + Len(sentence) < p.chunk_size
    THEN [st EXCEPT !.current_chunk = @ \o sentence \o ". "]
    ELSE IF st.current_chunk # ""
    THEN [current_chunk |-> SeedNext(st.current_chunk, sentence, p.overlap),
          chunk_id |-> st.chunk_id + 1,
          chunks |-> Append(st.chunks, MakeChunk(st.current_chunk, st.chunk_id, dt, md))]
    ELSE st

RECURSIVE ChunkLoop(_, _, _, _, _, _)
ChunkLoop(sents, i, st, p, dt, md) ==
    IF i > Len(sents) THEN st
    ELSE ChunkLoop(sents, i + 1, ChunkSentence(st, sents[i], p, dt, md), p, dt, md)

\* what the passes of the loop that emit a chunk find and leave in
\* current_chunk, in the order of the passes
RolloverOf(st, next, sentence) ==
    IF Len(next.chunks) > Len(st.chunks)
    THEN <<[closed |-> st.current_chunk, unit |-> sentence, seeded |-> next.current_chunk]>>
    ELSE <<>>

RECURSIVE Rollovers(_, _, _, _, _, _), RolloversVia(_, _, _, _, _, _, _)
Rollovers(sents, i, st, p, dt, md) ==
    IF i > Len(sents) THEN <<>>
    ELSE RolloversVia(sents, i, st, ChunkSentence(st, sents[i], p, dt, md), p, dt, md)

RolloversVia(sents, i, st, next, p, dt, md) ==
    RolloverOf(st, next, sents[i]) \o Rollovers(sents, i + 1, next, p, dt, md)

\* the final chunk
FinalChunk(st, dt, md) ==
    IF st.current_chunk # ""
    THEN Append(st.chunks, MakeChunk(st.current_chunk, st.chunk_id, dt, md))
    ELSE st.chunks

\* sentences = text.replace('\n', ' ').split('. ')
Sentences(txt) == Split(ReplaceChar(txt, "\n", " "), ". ")

create_specialized_chunks(txt, dt, md) ==
    FinalChunk(ChunkLoop(Sentences(txt), 1,
                         [current_chunk |-> "", chunk_id |-> 0, chunks |-> <<>>],
                         ChunkParams(dt), dt, md),
               dt, md)

----------------------------------------------------------------------------
(* extract_lab_report_data and _extract_lab_values                         *)

Alpha == UpperAlpha \cup LowerAlpha

\* ([A-Za-z\s]+):\s*([\d.]+)\s*([a-zA-Z/%]+)?\s*(?:\(|Reference:)?\s*([\d.\-\s]+)?
\* with marks 1-2, 3-4, 5-6 and 7-8 around the four groups
lab_pattern ==
    << Mark(1), Plus(Alpha \cup Whitespace), Mark(2), Lit(":"), Star(Whitespace),
       Mark(3), Plus(Digit \cup {"."}), Mark(4), Star(Whitespace),
       Alt(<< <<Mark(5), Plus(Alpha \cup {"/", "%"}), Mark(6)>>, <<>> >>),
       Star(Whitespace),
       Alt(<< <<Lit("(")>>, <<Lit("Reference:")>>, <<>> >>),
       Star(Whitespace),
       Alt(<< <<Mark(7), Plus(Digit \cup {".", "-"} \cup Whitespace), Mark(8)>>, <<>> >>) >>

\* \b[HL]\b|\*|abnormal|critical
abnormal_pattern ==
    << Alt(<< <<WordBoundary, One({"H", "L"}), WordBoundary>>,
              <<Lit("*")>>, <<Lit("abnormal")>>, <<Lit("critical")>> >>) >>

\* the dict test of one match
LabTest(txt, m) ==
    [name |-> Strip(Group(txt, m, 1, 2)),
     value |-> Group(txt, m, 3, 4),
     unit |-> Group(txt, m, 5, 6),
     reference |-> Group(txt, m, 7, 8)]

IsAbnormal(group0) == Matches(abnormal_pattern, group0, TRUE)

IsCritical(group0) == Contains(Lower(group0), "critical")

\* one pass of the loop over the matches
AddLabMatch(data, test, group0) ==
    [document_type |-> data.document_type,
     tests |-> Append(data.tests, test),
     abnormal_values |-> IF IsAbnormal(group0) THEN Append(data.abnormal_values, test)
                         ELSE data.abnormal_values,
     critical_values |-> IF IsAbnormal(group0) /\ IsCritical(group0)
                         THEN Append(data.critical_values, test)
                         ELSE data.critical_values]

RECURSIVE LabMatchLoop(_, _, _, _)
LabMatchLoop(txt, ms, i, data) ==
    IF i > Len(ms) THEN data
    ELSE LabMatchLoop(txt, ms, i + 1,
                      AddLabMatch(data, LabTest(txt, ms[i]), Group0(txt, ms[i])))

extract_lab_report_data(txt) ==
    LabMatchLoop(txt, re_finditer(lab_pattern, txt, FALSE, 8), 1,
                 [document_type |-> "lab_report", tests |-> <<>>,
                  abnormal_values |-> <<>>, critical_values |-> <<>>])

CountChars == Digit \cup {","}

\* platelet[s]?\s*[:=]?\s*([\d,]+)
platelet_pattern ==
    << Lit("platelet"), Opt({"s"}), Star(Whitespace), Opt({":", "="}), Star(Whitespace),
       Mark(1), Plus(CountChars), Mark(2) >>

\* (?:WBC|white\s+blood\s+cell)[s]?\s*[:=]?\s*([\d,]+)
wbc_pattern ==
    << Alt(<< <<Lit("WBC")>>,
              <<Lit("white"), Plus(Whitespace), Lit("blood"), Plus(Whitespace),
                Lit("cell")>> >>),
       Opt({"s"}), Star(Whitespace), Opt({":", "="}), Star(Whitespace),
       Mark(1), Plus(CountChars), Mark(2) >>

\* re.findall(pat, text, re.IGNORECASE) for a pattern with one group
RECURSIVE GroupsOf(_, _, _)
GroupsOf(txt, ms, i) ==
    IF i > Len(ms) THEN <<>>
    ELSE <<Group(txt, ms[i], 1, 2)>> \o GroupsOf(txt, ms, i + 1)

re_findall(pat, txt) == GroupsOf(txt, re_finditer(pat, txt, TRUE, 2), 1)

\* the body with lo <= val < hi
KeepCountBelow(values, digits, lo, hi) ==
    IF IsInt(digits) /\ lo <= ParseInt(digits) /\ ParseInt(digits) < hi
    THEN Append(values, ParseInt(digits))
    ELSE values

\* the body of the loop over the matched strings: the value is kept when
\* int() succeeds on the string without its commas and lo <= val <= hi
KeepCount(values, digits, lo, hi) ==
    IF IsInt(digits) /\ lo <= ParseInt(digits) /\ ParseInt(digits) <= hi
    THEN Append(values, ParseInt(digits))
    ELSE values

RECURSIVE PlausibleValues(_, _, _, _, _)
PlausibleValues(found, i, values, lo, hi) ==
    IF i > Len(found) THEN values
    ELSE PlausibleValues(found, i + 1, KeepCount(values, RemoveChar(found[i], ","), lo, hi),
                         lo, hi)

\* the trend with <= for <
TrendNotIncreasing(values) ==
    IF Len(values) > 1 /\ values[Len(values)] <= values[1] THEN "decreasing" ELSE "stable"

\* 'decreasing' if len(values) > 1 and values[-1] < values[0] else 'stable'
Trend(values) ==
    IF Len(values) > 1 /\ values[Len(values)] < values[1] THEN "decreasing" ELSE "stable"

\* data['diagnostics']['platelets'], as the set of the values under the key
PlateletEntry(values) ==
    IF values # <<>> THEN {[values |-> values, trend |-> Trend(values)]} ELSE {}

PlateletsOf(found) == PlateletEntry(PlausibleValues(found, 1, <<>>, 1000, 1000000))

\* data['diagnostics']['wbc']
WbcEntry(values) == IF values # <<>> THEN {[values |-> values]} ELSE {}

WbcOf(found) == WbcEntry(PlausibleValues(found, 1, <<>>, 100, 100000))

----------------------------------------------------------------------------
(* The extraction strategies.  A strategy returns its dict data, or raises: *)
(* the result is [raised |-> "", data |-> ...] or Raised(exception).        *)

\* sys.get_int_max_str_digits(): int() raises ValueError for a longer string
IntMaxStrDigits == 4300

Raised(exception) == [raised |-> exception]

Returned(data) == [raised |-> "", data |-> data]

\* whether int(s) raises for a string s that \d+ matched
IntRaises(s) == Len(s) > IntMaxStrDigits

NotDot == NRep({"."}, 1, Unbounded)

Spaces == Plus(Whitespace)

\* match.group(k).strip() of every match
StrippedGroup(txt, ms, open, close) ==
    [i \in 1..Len(ms) |-> Strip(Group(txt, ms[i], open, close))]

\* whether some element of the sequence satisfies int() raising
AnyIntRaises(txt, ms, open, close) ==
    \E i \in 1..Len(ms) : IntRaises(Group(txt, ms[i], open, close))

(* extract_textbook_data *)

\* Chapter\s+(\d+)[:\.]?\s*([^\n]{1,100})
chapter_pattern ==
    << Lit("Chapter"), Spaces, Mark(1), Plus(Digit), Mark(2), Opt({":", "."}),
       Star(Whitespace), Mark(3), NRep({"\n"}, 1, 100), Mark(4) >>

\* data['chapters'] after the loop over chapter_matches
Chapters(txt, ms) ==
    [i \in 1..Len(ms) |-> [number |-> ParseInt(Group(txt, ms[i], 1, 2)),
                           title |-> Strip(Group(txt, ms[i], 3, 4))]]

DiseaseName ==
    << Mark(1), One(UpperAlpha), Plus(LowerAlpha),
       Alt(<< <<Spaces, Plus(LowerAlpha)>>, <<>> >>), Mark(2) >>

\* ([A-Z][a-z]+(?:\s+[a-z]+)?)\s+is\s+(?:a|an)\s+([^\.]+disease[^\.]+)
\* ([A-Z][a-z]+(?:\s+[a-z]+)?)\s+(?:syndrome|disorder)\s+characterized\s+by\s+([^\.]+)
disease_patterns ==
    << DiseaseName \o
       << Spaces, Lit("is"), Spaces, Alt(<< <<Lit("a")>>, <<Lit("an")>> >>), Spaces,
          Mark(3), NotDot, Lit("disease"), NotDot, Mark(4) >>,
       DiseaseName \o
       << Spaces, Alt(<< <<Lit("syndrome")>>, <<Lit("disorder")>> >>), Spaces,
          Lit("characterized"), Spaces, Lit("by"), Spaces, Mark(3), NotDot, Mark(4) >> >>

HasDisease(diseases, name) == \E j \in 1..Len(diseases) : diseases[j].name = name

\* if disease_name not in data['diseases']: data['diseases'][disease_name] = {...}
AddDisease(diseases, name, definition) ==
    IF HasDisease(diseases, name) THEN diseases
    ELSE Append(diseases, [name |-> name, definition |-> Strip(definition),
                           symptoms |-> <<>>, treatments |-> <<>>])

\* the loop over the matches of the disease patterns; data['diseases'] as
\* the list of its items in insertion order
RECURSIVE AddDiseases(_, _, _, _)
AddDiseases(txt, ms, i, diseases) ==
    IF i > Len(ms) THEN diseases
    ELSE AddDiseases(txt, ms, i + 1,
                     AddDisease(diseases, Group(txt, ms[i], 1, 2), Group(txt, ms[i], 3, 4)))

Diseases(txt) ==
    AddDiseases(txt, re_finditer(disease_patterns[1], txt, FALSE, 4)
                     \o re_finditer(disease_patterns[2], txt, FALSE, 4), 1, <<>>)

\* diagnostic\s+criteria[:\s]+([^\.]{20,500})
criteria_pattern ==
    << Lit("diagnostic"), Spaces, Lit("criteria"), Plus({":"} \cup Whitespace),
       Mark(1), NRep({"."}, 20, 500), Mark(2) >>

Concept(type, content) == [type |-> type, content |-> content]

Criteria(txt, m) ==
    IF m.ok THEN <<Concept("diagnostic_criteria", Strip(Group(txt, m, 1, 2)))>> ELSE <<>>

\* treatment\s+(?:includes|consists\s+of|involves)\s+([^\.]+)
\* first[\s\-]line\s+(?:treatment|therapy)\s+(?:is|includes)\s+([^\.]+)
treatment_patterns ==
    << << Lit("treatment"), Spaces,
          Alt(<< <<Lit("includes")>>, <<Lit("consists"), Spaces, Lit("of")>>,
                 <<Lit("involves")>> >>),
          Spaces, Mark(1), NotDot, Mark(2) >>,
       << Lit("first"), One(Whitespace \cup {"-"}), Lit("line"), Spaces,
          Alt(<< <<Lit("treatment")>>, <<Lit("therapy")>> >>), Spaces,
          Alt(<< <<Lit("is")>>, <<Lit("includes")>> >>), Spaces,
          Mark(1), NotDot, Mark(2) >> >>

ShorterThan200(treatment) == Len(treatment) < 200

\* data['treatments']['general']; the key is absent when the list is empty
Treatments(txt) ==
    SelectSeq(StrippedGroup(txt, re_finditer(treatment_patterns[1], txt, TRUE, 2), 1, 2)
              \o StrippedGroup(txt, re_finditer(treatment_patterns[2], txt, TRUE, 2), 1, 2),
              ShorterThan200)

\* (?:key\s+points?|summary|important\s+points?)[:\s]+([^\.]{20,500})
\* (?:remember|note)\s+that\s+([^\.]{20,200})
keypoint_patterns ==
    << << Alt(<< <<Lit("key"), Spaces, Lit("point"), Opt({"s"})>>, <<Lit("summary")>>,
                 <<Lit("important"), Spaces, Lit("point"), Opt({"s"})>> >>),
          Plus({":"} \cup Whitespace), Mark(1), NRep({"."}, 20, 500), Mark(2) >>,
       << Alt(<< <<Lit("remember")>>, <<Lit("note")>> >>), Spaces, Lit("that"), Spaces,
          Mark(1), NRep({"."}, 20, 200), Mark(2) >> >>

KeyPointsOf(contents) == [i \in 1..Len(contents) |-> Concept("key_point", contents[i])]

KeyPoints(txt) ==
    KeyPointsOf(StrippedGroup(txt, re_finditer(keypoint_patterns[1], txt, TRUE, 2), 1, 2)
                \o StrippedGroup(txt, re_finditer(keypoint_patterns[2], txt, TRUE, 2), 1, 2))

\* the dict data of extract_textbook_data, 'treatments' as the list under
\* its only key
TextbookData(txt, chapter_matches) ==
    [document_type |-> "textbook",
     chapters |-> Chapters(txt, chapter_matches),
     diseases |-> Diseases(txt),
     treatments |-> Treatments(txt),
     key_concepts |-> Criteria(txt, re_search(criteria_pattern, txt, TRUE, 2)) \o KeyPoints(txt),
     tables |-> <<>>,
     figures |-> <<>>]

\* int(match.group(1)) raises in the loop over the chapters, or data is returned
TextbookResult(txt, chapter_matches) ==
    IF AnyIntRaises(txt, chapter_matches, 1, 2) THEN Raised("ValueError")
    ELSE Returned(TextbookData(txt, chapter_matches))

extract_textbook_data(txt) ==
    TextbookResult(txt, re_finditer(chapter_pattern, txt, TRUE, 4))

(* extract_case_report_data *)

Hyphens == Star(Whitespace \cup {"-"})

\* \b(\d{1,3})[\s\-]*year[\s\-]*old
age_pattern ==
    << WordBoundary, Mark(1), Rep(Digit, 1, 3), Mark(2), Hyphens, Lit("year"), Hyphens,
       Lit("old") >>

\* \b(male|female|man|woman)\b
gender_pattern ==
    << WordBoundary, Mark(1),
       Alt(<< <<Lit("male")>>, <<Lit("female")>>, <<Lit("man")>>, <<Lit("woman")>> >>),
       Mark(2), WordBoundary >>

\* presented\s+with\s+([^\.]{10,100})
complaint_pattern ==
    << Lit("presented"), Spaces, Lit("with"), Spaces, Mark(1), NRep({"."}, 10, 100), Mark(2) >>

\* (\d+)\s*days?\s+(?:prior|before|ago)            'onset_days'
\* day\s+(\d+)\s+of\s+(?:admission|illness)        'illness_day'
\* (?:after|following)\s+(\d+)\s*days?             'duration_days'
timeline_patterns ==
    << << Mark(1), Plus(Digit), Mark(2), Star(Whitespace), Lit("day"), Opt({"s"}), Spaces,
          Alt(<< <<Lit("prior")>>, <<Lit("before")>>, <<Lit("ago")>> >>) >>,
       << Lit("day"), Spaces, Mark(1), Plus(Digit), Mark(2), Spaces, Lit("of"), Spaces,
          Alt(<< <<Lit("admission")>>, <<Lit("illness")>> >>) >>,
       << Alt(<< <<Lit("after")>>, <<Lit("following")>> >>), Spaces, Mark(1), Plus(Digit),
          Mark(2), Star(Whitespace), Lit("day"), Opt({"s"}) >> >>

\* (?:final\s+)?diagnosis\s*:?\s*([^\.]+)
\* diagnosed\s+with\s+([^\.]+)
\* consistent\s+with\s+([^\.]+)
dx_patterns ==
    << << Alt(<< <<Lit("final"), Spaces>>, <<>> >>), Lit("diagnosis"), Star(Whitespace),
          Opt({":"}), Star(Whitespace), Mark(1), NotDot, Mark(2) >>,
       << Lit("diagnosed"), Spaces, Lit("with"), Spaces, Mark(1), NotDot, Mark(2) >>,
       << Lit("consistent"), Spaces, Lit("with"), Spaces, Mark(1), NotDot, Mark(2) >> >>

\* (recovered|died|discharged|transferred)
\* (complete\s+recovery|partial\s+recovery|death)
\* (favorable\s+outcome|poor\s+outcome)
outcome_patterns ==
    << << Mark(1),
          Alt(<< <<Lit("recovered")>>, <<Lit("died")>>, <<Lit("discharged")>>,
                 <<Lit("transferred")>> >>), Mark(2) >>,
       << Mark(1),
          Alt(<< <<Lit("complete"), Spaces, Lit("recovery")>>,
                 <<Lit("partial"), Spaces, Lit("recovery")>>, <<Lit("death")>> >>), Mark(2) >>,
       << Mark(1),
          Alt(<< <<Lit("favorable"), Spaces, Lit("outcome")>>,
                 <<Lit("poor"), Spaces, Lit("outcome")>> >>), Mark(2) >> >>

MedSuffix ==
    Alt(<< <<Lit("in")>>, <<Lit("ol")>>, <<Lit("ide")>>, <<Lit("ate")>>, <<Lit("ine")>>,
           <<Lit("one")>>, <<Lit("am")>> >>)

\* ([A-Z][a-z]+(?:in|ol|ide|ate|ine|one|am))\s+(\d+)\s*(mg|g|ml)
\* (acetaminophen|ibuprofen|aspirin|paracetamol)\s+(\d+)\s*(mg)
med_patterns ==
    << << Mark(1), One(UpperAlpha), Plus(LowerAlpha), MedSuffix, Mark(2), Spaces,
          Mark(3), Plus(Digit), Mark(4), Star(Whitespace),
          Mark(5), Alt(<< <<Lit("mg")>>, <<Lit("g")>>, <<Lit("ml")>> >>), Mark(6) >>,
       << Mark(1),
          Alt(<< <<Lit("acetaminophen")>>, <<Lit("ibuprofen")>>, <<Lit("aspirin")>>,
                 <<Lit("paracetamol")>> >>), Mark(2), Spaces,
          Mark(3), Plus(Digit), Mark(4), Star(Whitespace), Mark(5), Lit("mg"), Mark(6) >> >>

\* the value stored under a key when the match is not None: the set of the
\* values under the key
GroupIfMatch(txt, m) == IF m.ok THEN {Group(txt, m, 1, 2)} ELSE {}

IntIfMatch(txt, m) == IF m.ok THEN {ParseInt(Group(txt, m, 1, 2))} ELSE {}

MatchIntRaises(txt, m) == m.ok /\ IntRaises(Group(txt, m, 1, 2))

\* the loop without its break: the last pattern that matches is kept
RECURSIVE FirstOfNoBreak(_, _, _)
FirstOfNoBreak(patterns, txt, i) ==
    IF i > Len(patterns) THEN {}
    ELSE IF FirstOfNoBreak(patterns, txt, i + 1) # {}
         THEN FirstOfNoBreak(patterns, txt, i + 1)
         ELSE GroupIfMatch(txt, re_search(patterns[i], txt, TRUE, 2))

\* for pattern in patterns: match = re.search(...); if match: ...; break
RECURSIVE FirstOf(_, _, _), FoundOrNext(_, _, _, _)
FirstOf(patterns, txt, i) ==
    IF i > Len(patterns) THEN {}
    ELSE FoundOrNext(re_search(patterns[i], txt, TRUE, 2), patterns, txt, i)

FoundOrNext(m, patterns, txt, i) ==
    IF m.ok THEN {Group(txt, m, 1, 2)} ELSE FirstOf(patterns, txt, i + 1)

Timeline(txt) ==
    [onset_days |-> IntIfMatch(txt, re_search(timeline_patterns[1], txt, TRUE, 2)),
     illness_day |-> IntIfMatch(txt, re_search(timeline_patterns[2], txt, TRUE, 2)),
     duration_days |-> IntIfMatch(txt, re_search(timeline_patterns[3], txt, TRUE, 2))]

TimelineRaises(txt) ==
    \E i \in 1..Len(timeline_patterns) :
        MatchIntRaises(txt, re_search(timeline_patterns[i], txt, TRUE, 2))

\* the dicts appended by _extract_medications for one pattern
MedicationsOf(txt, ms) ==
    [i \in 1..Len(ms) |-> [name |-> Group(txt, ms[i], 1, 2),
                           dose |-> Group(txt, ms[i], 3, 4),
                           unit |-> Group(txt, ms[i], 5, 6)]]

\* data['interventions']['medications']; the key is absent when the list is empty
Medications(txt) ==
    MedicationsOf(txt, re_finditer(med_patterns[1], txt, TRUE, 6))
    \o MedicationsOf(txt, re_finditer(med_patterns[2], txt, TRUE, 6))

\* the dict data of extract_case_report_data; a key of a sub-dict holds the
\* set of the values stored under it
CaseReportData(txt) ==
    [document_type |-> "case_report",
     patient |-> [age |-> IntIfMatch(txt, re_search(age_pattern, txt, TRUE, 2)),
                  gender |-> {Lower(g) : g \in GroupIfMatch(txt, re_search(gender_pattern, txt,
                                                                           TRUE, 2))}],
     timeline |-> Timeline(txt),
     clinical_findings |->
        [chief_complaint |-> {Strip(g) : g \in GroupIfMatch(txt, re_search(complaint_pattern,
                                                                         txt, TRUE, 2))}],
     diagnostics |-> [platelets |-> PlateletsOf(re_findall(platelet_pattern, txt)),
                      wbc |-> WbcOf(re_findall(wbc_pattern, txt)),
                      primary_diagnosis |-> {Strip(g) : g \in FirstOf(dx_patterns, txt, 1)}],
     interventions |-> [medications |-> Medications(txt)],
     outcomes |-> [status |-> FirstOf(outcome_patterns, txt, 1)]]

\* int(match.group(1)) raises in the loop over timeline_patterns, or data
\* is returned
extract_case_report_data(txt) ==
    IF TimelineRaises(txt) THEN Raised("ValueError") ELSE Returned(CaseReportData(txt))

(* extract_guideline_data *)

\* (recommend[s|ed]?|should\s+be|must\s+be)\s+([^\.]+)
\* Level\s+([A-C])\s+(?:evidence|recommendation)[:\s]+([^\.]+)
rec_patterns ==
    << << Mark(1),
          Alt(<< <<Lit("recommend"), Opt({"s", "|", "e", "d"})>>,
                 <<Lit("should"), Spaces, Lit("be")>>, <<Lit("must"), Spaces, Lit("be")>> >>),
          Mark(2), Spaces, Mark(3), NotDot, Mark(4) >>,
       << Lit("Level"), Spaces, Mark(1), One({"A", "B", "C"}), Mark(2), Spaces,
          Alt(<< <<Lit("evidence")>>, <<Lit("recommendation")>> >>),
          Plus({":"} \cup Whitespace), Mark(3), NotDot, Mark(4) >> >>

\* the dict appended for one match: 'evidence_level' when group 1 starts
\* with 'Level', 'strength' otherwise
Recommendation(group1, group2) ==
    IF StartsWith(group1, "Level")
    THEN [text |-> Strip(group2), evidence_level |-> group1]
    ELSE [text |-> Strip(group2), strength |-> group1]

RecommendationsOf(txt, ms) ==
    [i \in 1..Len(ms) |-> Recommendation(Group(txt, ms[i], 1, 2), Group(txt, ms[i], 3, 4))]

Recommendations(txt) ==
    RecommendationsOf(txt, re_finditer(rec_patterns[1], txt, TRUE, 4))
    \o RecommendationsOf(txt, re_finditer(rec_patterns[2], txt, TRUE, 4))

\* contraindicated\s+in\s+([^\.]+)
\* should\s+not\s+be\s+(?:used|given)\s+(?:in|to)\s+([^\.]+)
\* avoid\s+(?:in|for)\s+([^\.]+)
contra_patterns ==
    << << Lit("contraindicated"), Spaces, Lit("in"), Spaces, Mark(1), NotDot, Mark(2) >>,
       << Lit("should"), Spaces, Lit("not"), Spaces, Lit("be"), Spaces,
          Alt(<< <<Lit("used")>>, <<Lit("given")>> >>), Spaces,
          Alt(<< <<Lit("in")>>, <<Lit("to")>> >>), Spaces, Mark(1), NotDot, Mark(2) >>,
       << Lit("avoid"), Spaces, Alt(<< <<Lit("in")>>, <<Lit("for")>> >>), Spaces,
          Mark(1), NotDot, Mark(2) >> >>

\* monitor\s+([^\.]+)
\* check\s+([^\.]+)\s+(?:every|daily|weekly)
\* follow[\s\-]up\s+([^\.]+)
monitor_patterns ==
    << << Lit("monitor"), Spaces, Mark(1), NotDot, Mark(2) >>,
       << Lit("check"), Spaces, Mark(1), NotDot, Mark(2), Spaces,
          Alt(<< <<Lit("every")>>, <<Lit("daily")>>, <<Lit("weekly")>> >>) >>,
       << Lit("follow"), One(Whitespace \cup {"-"}), Lit("up"), Spaces,
          Mark(1), NotDot, Mark(2) >> >>

\* the stripped group 1 of the matches of each pattern in turn
RECURSIVE StrippedOfAll(_, _, _)
StrippedOfAll(patterns, txt, i) ==
    IF i > Len(patterns) THEN <<>>
    ELSE StrippedGroup(txt, re_finditer(patterns[i], txt, TRUE, 2), 1, 2)
         \o StrippedOfAll(patterns, txt, i + 1)

ShorterThan100(monitoring_item) == Len(monitoring_item) < 100

extract_guideline_data(txt) ==
    Returned([document_type |-> "clinical_guideline",
              recommendations |-> Recommendations(txt),
              algorithms |-> <<>>,
              evidence_levels |-> {},
              contraindications |-> StrippedOfAll(contra_patterns, txt, 1),
              monitoring |-> SelectSeq(StrippedOfAll(monitor_patterns, txt, 1),
                                       ShorterThan100)])

(* extract_discharge_summary_data *)

RestOfLine == NRep({"\n"}, 1, Unbounded)

ColonOrSpace == Plus({":"} \cup Whitespace)

\* admission\s+date[:\s]+([^\n]+)   and the three patterns like it
LinePattern(first, second) ==
    << Lit(first), Spaces, Lit(second), ColonOrSpace, Mark(1), RestOfLine, Mark(2) >>

\* hospital\s+course[:\s]+([^\.]{50,1000})
course_pattern ==
    << Lit("hospital"), Spaces, Lit("course"), ColonOrSpace,
       Mark(1), NRep({"."}, 50, 1000), Mark(2) >>

\* discharge\s+medications?[:\s]+([^\.]{50,2000})
med_section_pattern ==
    << Lit("discharge"), Spaces, Lit("medication"), Opt({"s"}), ColonOrSpace,
       Mark(1), NRep({"."}, 50, 2000), Mark(2) >>

\* ([A-Z][a-z]+(?:in|ol|ide|ate)?)\s+(\d+)\s*(mg|g)
med_line_pattern ==
    << Mark(1), One(UpperAlpha), Plus(LowerAlpha),
       Alt(<< <<Lit("in")>>, <<Lit("ol")>>, <<Lit("ide")>>, <<Lit("ate")>>, <<>> >>),
       Mark(2), Spaces, Mark(3), Plus(Digit), Mark(4), Star(Whitespace),
       Mark(5), Alt(<< <<Lit("mg")>>, <<Lit("g")>> >>), Mark(6) >>

\* follow[\s\-]up[:\s]+([^\.]{20,500})
followup_pattern ==
    << Lit("follow"), One(Whitespace \cup {"-"}), Lit("up"), ColonOrSpace,
       Mark(1), NRep({"."}, 20, 500), Mark(2) >>

\* the dicts appended for the medications found in med_text
MedLines(med_text, ms) ==
    [i \in 1..Len(ms) |-> [name |-> Group(med_text, ms[i], 1, 2),
                           dose |-> Group(med_text, ms[i], 3, 4) \o " "
                                    \o Group(med_text, ms[i], 5, 6)]]

MedLinesOf(med_text) == MedLines(med_text, re_finditer(med_line_pattern, med_text, FALSE, 6))

\* _extract_discharge_medications: data['medications']['discharge']
DischargeMedications(txt, med_section) ==
    IF med_section.ok THEN MedLinesOf(Group(txt, med_section, 1, 2)) ELSE <<>>

StrippedIfMatch(txt, m) == IF m.ok THEN {Strip(Group(txt, m, 1, 2))} ELSE {}

StrippedOrEmpty(txt, m) == IF m.ok THEN Strip(Group(txt, m, 1, 2)) ELSE ""

StrippedList(txt, m) == IF m.ok THEN <<Strip(Group(txt, m, 1, 2))>> ELSE <<>>

DateAndDiagnosis(txt, event) ==
    [date |-> StrippedIfMatch(txt, re_search(LinePattern(event, "date"), txt, TRUE, 2)),
     diagnosis |-> StrippedIfMatch(txt, re_search(LinePattern(event, "diagnosis"), txt,
                                                  TRUE, 2))]

extract_discharge_summary_data(txt) ==
    Returned([document_type |-> "discharge_summary",
              admission |-> DateAndDiagnosis(txt, "admission"),
              discharge |-> DateAndDiagnosis(txt, "discharge"),
              hospital_course |-> StrippedOrEmpty(txt, re_search(course_pattern, txt, TRUE, 2)),
              medications |->
                 [admission |-> <<>>,
                  discharge |-> DischargeMedications(txt, re_search(med_section_pattern, txt,
                                                                    TRUE, 2))],
              follow_up |-> StrippedList(txt, re_search(followup_pattern, txt, TRUE, 2))])

\* the call of an extract_*_data method on a text
Extract(method, txt) ==
    CASE method = "extract_case_report_data" -> extract_case_report_data(txt)
      [] method = "extract_textbook_data" -> extract_textbook_data(txt)
      [] method = "extract_guideline_data" -> extract_guideline_data(txt)
      [] method = "extract_discharge_summary_data" -> extract_discharge_summary_data(txt)
      [] method = "extract_lab_report_data" -> Returned(extract_lab_report_data(txt))

----------------------------------------------------------------------------
(* The inputs of classify_document: texts put together from phrases, and   *)
(* texts whose content lies at or beyond the end of the 3000-character     *)
(* window.                                                                 *)

MaxPhrases == 2

CaseKeywords ==
    "case report, case presentation: we report and we present a case of a rare case, an unusual presentation"

CasePatterns == "A 34-year-old male presented with fever and was diagnosed with dengue fever."

Phrases == <<
    CaseKeywords \o " " \o CasePatterns,
    "the patient",
    "the diagnosis of this chapter",
    "Hemoglobin: 9.2 g/dL (12.0-16.0) L",
    "guideline recommendation protocol",
    "laboratory specimen collected" >>

RECURSIVE Join(_, _)
Join(parts, sep) ==
    IF parts = <<>> THEN ""
    ELSE IF Len(parts) = 1 THEN parts[1]
    ELSE parts[1] \o sep \o Join(Tail(parts), sep)

PhraseTexts ==
    UNION {{Join([i \in 1..n |-> Phrases[ix[i]]], " ") : ix \in [1..n -> 1..Len(Phrases)]} :
              n \in 0..MaxPhrases}

\* n times the string s
RECURSIVE Repeat(_, _)
Repeat(s, n) ==
    IF n = 0 THEN ""
    ELSE IF n = 1 THEN s
    ELSE Repeat(s, n \div 2) \o Repeat(s, n - n \div 2)

LongTexts ==
    {Repeat(" ", ClassifyWindow - Len(CasePatterns) + k) \o CasePatterns : k \in {0, 10}}
    \cup {Repeat("x", ClassifyWindow - Len(Phrases[2]) - 1) \o Phrases[2] \o " "
              \o Phrases[3],
          Repeat(" ", ClassifyWindow) \o Phrases[5]}

PageCounts == {0, 12, 50, 80}

NoResult == [type |-> "", confidence |-> FZero]

clsVars == <<page_count, cls_pc, cls_scores, cls_result, cls_again>>

chunkVars ==
    <<doc_type, metadata, chunk_size, overlap, chunk_pc, sentences, rollovers, chunks,
      chunks_again>>

extVars == <<strategy, ext_pc, ext_result>>

labVars == <<lab_pc, lab_data, vals_pc, platelet_matches, wbc_matches, diagnostics>>

batchVars ==
    <<mode, argv, pdf_files, file_idx, batch_pc, proc_pc, proc_doc, proc_strategy,
      proc_error, processed_files, failed_files, self_doc_type_patterns, proc_out,
      vector_db_files>>

guiVars == <<process_btn, selected_files, self_extractor, extractors, workers>>

vars == <<text, clsVars, chunkVars, labVars, extVars, batchVars, guiVars>>

NoDoc == [type |-> UNKNOWN, confidence |-> FZero, chunks |-> 0]

\* extracted_data is a set: empty before the method returned
NoOutput == [extracted_data |-> {}, text_chunks |-> <<>>, image_chunks |-> <<>>]

GuiIdle ==
    /\ process_btn = "disabled"
    /\ selected_files = <<>>
    /\ self_extractor = 0
    /\ extractors = <<>>
    /\ workers = <<>>

BatchIdle ==
    /\ mode = "none"
    /\ argv = <<>>
    /\ pdf_files = <<>>
    /\ file_idx = 0
    /\ batch_pc = "idle"
    /\ proc_pc = "idle"
    /\ proc_doc = NoDoc
    /\ proc_out = NoOutput
    /\ vector_db_files = <<>>
    /\ proc_strategy = ""
    /\ proc_error = ""
    /\ processed_files = <<>>
    /\ failed_files = <<>>
    /\ self_doc_type_patterns = doc_type_patterns

NoLabData ==
    [document_type |-> "lab_report", tests |-> <<>>, abnormal_values |-> <<>>,
     critical_values |-> <<>>]

NoDiagnostics == [platelets |-> {}, wbc |-> {}]

LabIdle ==
    /\ lab_pc = "idle"
    /\ lab_data = NoLabData
    /\ vals_pc = "idle"
    /\ platelet_matches = <<>>
    /\ wbc_matches = <<>>
    /\ diagnostics = NoDiagnostics

ChunkIdle ==
    /\ doc_type = UNKNOWN
    /\ metadata = [doc_id |-> {}]
    /\ chunk_size = 0
    /\ overlap = 0
    /\ chunk_pc = "idle"
    /\ sentences = <<>>
    /\ rollovers = <<>>
    /\ chunks = <<>>
    /\ chunks_again = <<>>

NoExtraction == [raised |-> "", data |-> {}]

ExtIdle ==
    /\ strategy = ""
    /\ ext_pc = "idle"
    /\ ext_result = NoExtraction

ClassifyIdle ==
    /\ page_count = 0
    /\ cls_pc = "idle"
    /\ cls_scores = <<>>
    /\ cls_result = NoResult
    /\ cls_again = NoResult

InitClassify ==
    /\ \/ text \in PhraseTexts /\ page_count \in PageCounts
       \/ text \in LongTexts /\ page_count = 12
    /\ cls_pc = "call"
    /\ cls_scores = <<>>
    /\ cls_result = NoResult
    /\ cls_again = NoResult
    /\ ChunkIdle
    /\ LabIdle
    /\ ExtIdle
    /\ BatchIdle
    /\ GuiIdle

\* doc_type, confidence = self.classify_document(full_text, page_count)
Classify ==
    /\ cls_pc = "call"
    /\ cls_scores' = Scores(first_3k_chars(text), page_count)
    /\ cls_result' = BestOrFallback(cls_scores', first_3k_chars(text), page_count)
    /\ cls_pc' = "done"
    /\ UNCHANGED <<text, page_count, cls_again, chunkVars, labVars, extVars, batchVars, guiVars>>

NextClassify == Classify

SpecClassify == InitClassify /\ [][NextClassify]_vars

----------------------------------------------------------------------------
(* Properties of classify_document, under SpecClassify                     *)

\* C1: the confidence classify_document returns lies in [0, 1], for every
\* text and page count.
ConfidenceInUnitInterval ==
    cls_pc = "done" =>
        /\ FLeq(FZero, cls_result.confidence)
        /\ FLeq(cls_result.confidence, FromNat(1))

AboveThreshold(scores) == {i \in 1..Len(scores) : FLess(Decimal(2, 10), scores[i].score)}

HasBoth(window) == Contains(window, "patient") /\ Contains(window, "diagnosis")

\* C2: when no type has a score above 0.2 the result is (Textbook, 0.6) if
\* page_count > 50, else (CaseReport, 0.4) if "patient" and "diagnosis" both
\* occur in the folded first 3000 characters, else (Unknown, 0.0); and when
\* some type has one, the result is a scored type with its score, above 0.2.
FallbackOrder ==
    cls_pc = "done" =>
        IF AboveThreshold(cls_scores) = {}
        THEN cls_result =
                IF page_count > 50 THEN [type |-> TEXTBOOK, confidence |-> Decimal(6, 10)]
                ELSE IF HasBoth(Lower(Prefix(text, 3000)))
                THEN [type |-> CASE_REPORT, confidence |-> Decimal(4, 10)]
                ELSE [type |-> UNKNOWN, confidence |-> FZero]
        ELSE \E i \in AboveThreshold(cls_scores) :
                cls_result = [type |-> cls_scores[i].type, confidence |-> cls_scores[i].score]

\* a text matching nothing with 80 pages gives (Textbook, 0.6), and a text
\* with scores at or below 0.2 falls back too
FallbackOrderWitness ==
    /\ cls_pc = "done"
    /\ cls_scores # <<>>
    /\ AboveThreshold(cls_scores) = {}
    /\ page_count <= 50
    /\ cls_result.type = CASE_REPORT

\* C5: classify_document returns a (type, confidence) pair for every text
\* and page count, and for the empty string it is (Textbook, 0.6) when
\* page_count > 50 and (Unknown, 0.0) otherwise.
ClassifyTotal ==
    cls_pc = "done" =>
        /\ cls_result.type \in DocumentType
        /\ cls_result.confidence.m \in Seq(0..(LimbBase - 1))
        /\ text = "" =>
               cls_result = IF page_count > 50
                            THEN [type |-> TEXTBOOK, confidence |-> Decimal(6, 10)]
                            ELSE [type |-> UNKNOWN, confidence |-> FZero]

ClassifyTotalWitness == cls_pc = "done" /\ text = "" /\ page_count = 50

\* C6: the confidence returned is 0.0 exactly when the type returned is
\* Unknown.
ZeroIffUnknown ==
    cls_pc = "done" => (cls_result.confidence = FZero <=> cls_result.type = UNKNOWN)

\* Unknown returned although some type scored (at or below the threshold)
ZeroIffUnknownWitness ==
    cls_pc = "done" /\ cls_scores # <<>> /\ cls_result.type = UNKNOWN

\* the registered indicators of a type
IndicatorsOf(dt) ==
    doc_type_patterns[CHOOSE i \in 1..Len(doc_type_patterns) : doc_type_patterns[i].type = dt]

\* k and p: how many keywords and patterns of the type match the window
KeywordsMatched(ind, window) ==
    Cardinality({i \in 1..Len(ind.keywords) : Contains(window, ind.keywords[i])})

PatternsMatched(ind, window) ==
    Cardinality({i \in 1..Len(ind.patterns) : Matches(ind.patterns[i], window, TRUE)})

FloatOfNat(n) == IF n = 0 THEN FZero ELSE FromNat(n)

\* the factor for a document shorter than min_pages or longer than max_pages
TimesFactor(x, applies, factor) == IF applies THEN FMul(x, factor) ELSE x

\* (1.0*k + 1.5*p) * [0.3] * [0.5] / (K + P) * w, in floats, left to right
ScoreByFormula(ind, k, p, pages) ==
    FMul(FDivNat(TimesFactor(TimesFactor(FAdd(FloatOfNat(k),
                                              FMul(Decimal(15, 10), FloatOfNat(p))),
                                         \E m \in ind.min_pages : pages < m,
                                         Decimal(3, 10)),
                             \E m \in ind.max_pages : pages > m,
                             Decimal(5, 10)),
                 Len(ind.keywords) + Len(ind.patterns)),
         ind.weight)

ActiveTypes == DocumentType \ {UNKNOWN}

\* the type is scored exactly when k + p > 0, and then with the formula
EntryByFormula(ind, scores, k, p, pages) ==
    IF k + p > 0
    THEN \E i \in 1..Len(scores) :
            scores[i] = [type |-> ind.type, score |-> ScoreByFormula(ind, k, p, pages)]
    ELSE \A i \in 1..Len(scores) : scores[i].type # ind.type

ScoresByFormula(window, scores, pages) ==
    \A dt \in ActiveTypes :
        EntryByFormula(IndicatorsOf(dt), scores,
                       KeywordsMatched(IndicatorsOf(dt), window),
                       PatternsMatched(IndicatorsOf(dt), window), pages)

\* C16: a registered type is a candidate iff one of its keywords or patterns
\* matches the folded window, its score is
\* (1.0*k + 1.5*p) * (0.3 below min_pages) * (0.5 above max_pages) / (K + P) * w,
\* and when the largest candidate score is above 0.2 the result is a type
\* with that score and the score as confidence.
ScoringFormula ==
    cls_pc = "done" =>
        /\ \A i, j \in 1..Len(cls_scores) : cls_scores[i].type = cls_scores[j].type => i = j
        /\ \A i \in 1..Len(cls_scores) : cls_scores[i].type \in ActiveTypes
        /\ ScoresByFormula(Lower(Prefix(text, 3000)), cls_scores, page_count)
        /\ AboveThreshold(cls_scores) # {} =>
              \E i \in 1..Len(cls_scores) :
                  /\ \A j \in 1..Len(cls_scores) : FLeq(cls_scores[j].score, cls_scores[i].score)
                  /\ cls_result = [type |-> cls_scores[i].type,
                                   confidence |-> cls_scores[i].score]

\* a case report of more than 15 pages: keywords and patterns matched, the
\* score halved, and returned as the confidence
ScoringFormulaWitness ==
    /\ cls_pc = "done"
    /\ page_count > 15
    /\ cls_result.type = CASE_REPORT
    /\ KeywordsMatched(IndicatorsOf(CASE_REPORT), Lower(Prefix(text, 3000))) > 0
    /\ PatternsMatched(IndicatorsOf(CASE_REPORT), Lower(Prefix(text, 3000))) > 0
    /\ FLess(Decimal(2, 10), cls_result.confidence)

\* the position of a type in the registration order
RegistrationIndex(dt) ==
    CHOOSE i \in 1..Len(doc_type_patterns) : doc_type_patterns[i].type = dt

IsMaxScore(scores, i) == \A j \in 1..Len(scores) : FLeq(scores[j].score, scores[i].score)

\* C17: when several candidate types share the largest score (above 0.2)
\* the result is the one that comes first in the registration order;
\* ClinicalGuideline wins over LabReport when both have the same match
\* counts and no page penalty.
TieBreak ==
    (cls_pc = "done" /\ AboveThreshold(cls_scores) # {}) =>
        /\ \A i, j \in 1..Len(cls_scores) :
              i < j => RegistrationIndex(cls_scores[i].type)
                          < RegistrationIndex(cls_scores[j].type)
        /\ \E i \in 1..Len(cls_scores) :
              /\ IsMaxScore(cls_scores, i)
              /\ cls_result.type = cls_scores[i].type
              /\ \A j \in 1..Len(cls_scores) :
                    IsMaxScore(cls_scores, j) =>
                        RegistrationIndex(cls_scores[i].type)
                           <= RegistrationIndex(cls_scores[j].type)

\* ClinicalGuideline and LabReport with the same largest score
TieBreakWitness ==
    /\ cls_pc = "done"
    /\ cls_result.type = CLINICAL_GUIDELINE
    /\ FLess(Decimal(2, 10), cls_result.confidence)
    /\ \E j \in 1..Len(cls_scores) :
          cls_scores[j] = [type |-> LAB_REPORT, score |-> cls_result.confidence]

UpperChar(c) ==
    IF c \in LowerAlpha THEN UpperSeq[CHOOSE i \in 1..26 : LowerSeq[i] = c] ELSE c

\* str.upper()
RECURSIVE Upper(_)
Upper(s) ==
    IF Len(s) = 0 THEN ""
    ELSE IF Len(s) = 1 THEN UpperChar(s)
    ELSE Upper(SubSeq(s, 1, Len(s) \div 2)) \o Upper(SubSeq(s, Len(s) \div 2 + 1, Len(s)))

\* what may follow character 3000
CaseTail == " " \o Phrases[1]

RadiologyTail == " IMPRESSION: FINDINGS: TECHNIQUE: ct mri"

\* texts that agree with txt on the first 3000 characters up to letter case:
\* txt in capitals, and for a text of 3000 characters or more its first
\* 3000 characters followed by something else
SameWindow(txt) ==
    {Upper(txt)}
    \cup (IF Len(txt) >= 3000
          THEN {SubSeq(txt, 1, 3000) \o CaseTail,
                Upper(SubSeq(txt, 1, 3000)) \o RadiologyTail}
          ELSE {})

\* C18: the result depends only on the first 3000 characters, case-folded,
\* and on the page count: a text that agrees with the classified one on
\* its first 3000 characters up to letter case gets the same result.
WindowOnly ==
    cls_pc = "done" =>
        \A t \in SameWindow(text) : classify_document(t, page_count) = cls_result

\* a text whose diagnosis lies just beyond the window: Unknown, although
\* the whole text holds "patient" and "diagnosis"
WindowOnlyWitness ==
    /\ cls_pc = "done"
    /\ Len(text) > 3000
    /\ Contains(text, "patient")
    /\ Contains(text, "diagnosis")
    /\ cls_result.type = UNKNOWN

----------------------------------------------------------------------------
(* The inputs of create_specialized_chunks: texts of up to MaxUnits        *)
(* sentence units, the unit at each position made of its own letter; the   *)
(* lengths lie around the chunk size of the document type.                 *)

MaxUnits == 3

Letters == <<"a", "b", "c", "d", "e", "f">>

UnitLengths(dt) ==
    CASE dt = TEXTBOOK -> {3, 767, 770}
      [] dt = CLINICAL_GUIDELINE -> {3, 399, 405}
      [] dt = LAB_REPORT -> {3, 255, 260}
      [] OTHER -> {3, 511, 520}

\* the units for position i: runs of the letter, a short unit with white
\* space at its start and a line break inside, and as a first unit the run
\* that makes a chunk text as long as the overlap
Units(dt, i) ==
    {Repeat(Letters[i], n) : n \in UnitLengths(dt)}
    \cup {" " \o Letters[i] \o "\n" \o Letters[i]}
    \cup (IF i = 1 THEN {Repeat(Letters[i], ChunkParams(dt).overlap - 1)} ELSE {})

\* the texts of exactly n units
RECURSIVE UnitTexts(_, _)
UnitTexts(dt, n) ==
    IF n = 0 THEN {""}
    ELSE IF n = 1 THEN Units(dt, 1)
    ELSE {t \o ". " \o u : t \in UnitTexts(dt, n - 1), u \in Units(dt, n)}

ChunkTexts(dt) == UNION {UnitTexts(dt, n) : n \in 0..MaxUnits}

Metadatas == {[doc_id |-> {}], [doc_id |-> {"9e107d9d372b"}]}

InitChunk ==
    /\ doc_type \in DocumentType
    /\ text \in ChunkTexts(doc_type)
    /\ metadata \in Metadatas
    /\ chunk_size = 0
    /\ overlap = 0
    /\ chunk_pc = "call"
    /\ sentences = <<>>
    /\ rollovers = <<>>
    /\ chunks = <<>>
    /\ chunks_again = <<>>
    /\ ClassifyIdle
    /\ LabIdle
    /\ ExtIdle
    /\ BatchIdle
    /\ GuiIdle

\* text_chunks = self.create_specialized_chunks(full_text, doc_type, doc_metadata)
Chunk ==
    /\ chunk_pc = "call"
    /\ chunk_size' = ChunkParams(doc_type).chunk_size
    /\ overlap' = ChunkParams(doc_type).overlap
    /\ sentences' = Sentences(text)
    /\ rollovers' = Rollovers(sentences', 1,
                              [current_chunk |-> "", chunk_id |-> 0, chunks |-> <<>>],
                              [chunk_size |-> chunk_size', overlap |-> overlap'],
                              doc_type, metadata)
    /\ chunks' = FinalChunk(ChunkLoop(sentences', 1,
                                      [current_chunk |-> "", chunk_id |-> 0, chunks |-> <<>>],
                                      [chunk_size |-> chunk_size', overlap |-> overlap'],
                                      doc_type, metadata),
                            doc_type, metadata)
    /\ chunk_pc' = "done"
    /\ UNCHANGED <<text, doc_type, metadata, chunks_again, clsVars, labVars, extVars,
                   batchVars, guiVars>>

NextChunk == Chunk

SpecChunk == InitChunk /\ [][NextChunk]_vars

----------------------------------------------------------------------------
(* Properties of create_specialized_chunks, under SpecChunk                *)

NonDecreasing(f) == \A i, j \in DOMAIN f : i < j => f[i] <= f[j]

Increasing(f) == \A i, j \in DOMAIN f : i < j => f[i] < f[j]

\* C3: every sentence unit of the newline-normalized text appears (up to
\* surrounding white space) in an emitted chunk, the units in their order
\* across the chunk sequence.
ChunkCoverage ==
    chunk_pc = "done" =>
        \E f \in [1..Len(sentences) -> 1..Len(chunks)] :
            /\ NonDecreasing(f)
            /\ \A i \in 1..Len(sentences) : Contains(chunks[f[i]].text, Strip(sentences[i]))

\* C4: the empty text gives no chunk.
EmptyTextNoChunks == (chunk_pc = "done" /\ text = "") => chunks = <<>>

\* C7: the chunk at position i has chunk_index i (from zero) and chunk_id
\* "{doc_id}_{i}", the ids are pairwise distinct, and the chunks are in
\* document order: they end with later and later sentences.
ChunkIdsDense ==
    chunk_pc = "done" =>
        /\ \A i \in 1..Len(chunks) :
              /\ chunks[i].metadata.chunk_index = i - 1
              /\ chunks[i].chunk_id = DocIdOf(metadata) \o "_" \o IntToStr(i - 1)
        /\ \A i, j \in 1..Len(chunks) : i # j => chunks[i].chunk_id # chunks[j].chunk_id
        /\ \E e \in [1..Len(chunks) -> 1..Len(sentences)] :
              /\ Increasing(e)
              /\ \A k \in 1..Len(chunks) :
                    EndsWith(chunks[k].text, Strip(sentences[e[k]] \o "."))

ChunkIdsDenseWitness ==
    chunk_pc = "done" /\ Len(chunks) >= 3 /\ metadata.doc_id # {}

\* C14: chunk_size and overlap follow from the document type alone:
\* CaseReport (512, 128), Textbook (768, 200), ClinicalGuideline (400, 100),
\* LabReport (256, 50) and (512, 128) for every other type; the overlap is
\* below the chunk size.
ChunkParamsByType ==
    chunk_pc = "done" =>
        /\ doc_type = CASE_REPORT => chunk_size = 512 /\ overlap = 128
        /\ doc_type = TEXTBOOK => chunk_size = 768 /\ overlap = 200
        /\ doc_type = CLINICAL_GUIDELINE => chunk_size = 400 /\ overlap = 100
        /\ doc_type = LAB_REPORT => chunk_size = 256 /\ overlap = 50
        /\ doc_type \in {DISCHARGE_SUMMARY, RESEARCH_ARTICLE, RADIOLOGY_REPORT, UNKNOWN}
              => chunk_size = 512 /\ overlap = 128
        /\ overlap < chunk_size

\* a lab report cut into chunks of its own size: a unit of 260 characters
\* would not close a chunk of 512
ChunkParamsByTypeWitness ==
    /\ chunk_pc = "done"
    /\ doc_type = LAB_REPORT
    /\ Len(sentences) = 2
    /\ Len(chunks) = 2

\* C19 as stated: when a chunk is closed the next buffer begins with the
\* trailing overlap characters of the text emitted for it if that text is
\* longer than the overlap, and with nothing carried over otherwise, then the
\* unit; so a chunk whose predecessor is longer than the overlap starts with
\* the last overlap characters of the predecessor's text.
OverlapSeeding ==
    chunk_pc = "done" =>
        \A k \in 1..Len(rollovers) :
            /\ rollovers[k].seeded =
                  (IF Len(chunks[k].text) > overlap THEN Suffix(chunks[k].text, overlap)
                   ELSE "") \o rollovers[k].unit \o ". "
            /\ Len(chunks[k].text) > overlap =>
                  StartsWith(chunks[k + 1].text, Suffix(chunks[k].text, overlap))

\* C19, amended: the seed is taken from the buffer as it was closed, which
\* is the emitted text before trimming and ends with ". ": the next buffer
\* begins with the trailing overlap characters of that buffer if the buffer
\* is longer than the overlap, and with nothing carried over otherwise, then
\* the unit; so the next chunk starts with the last overlap characters of
\* its predecessor's text followed by a space, less leading white space.
OverlapSeedingFromBuffer ==
    chunk_pc = "done" =>
        /\ Len(rollovers) = Max(Len(chunks) - 1, 0)
        /\ \A k \in 1..Len(rollovers) :
              /\ chunks[k].text = Strip(rollovers[k].closed)
              /\ EndsWith(rollovers[k].closed, ". ")
              /\ rollovers[k].seeded =
                    (IF Len(rollovers[k].closed) > overlap
                     THEN Suffix(rollovers[k].closed, overlap)
                     ELSE "") \o rollovers[k].unit \o ". "
              /\ Len(rollovers[k].closed) > overlap =>
                    StartsWith(chunks[k + 1].text,
                               LStrip(Suffix(chunks[k].text \o " ", overlap)))

\* a chunk whose text is exactly as long as the overlap and whose buffer,
\* one character longer, seeds the next one
OverlapSeedingFromBufferWitness ==
    /\ chunk_pc = "done"
    /\ \E k \in 1..Len(rollovers) :
          /\ Len(chunks[k].text) = overlap
          /\ Len(rollovers[k].closed) = overlap + 1
          /\ StartsWith(rollovers[k].seeded, Suffix(rollovers[k].closed, overlap))

\* C24: every chunk returned by create_specialized_chunks has a non-empty
\* text of at most chunk_size characters, the chunks that start with
\* carried-over overlap and the chunks made of one long sentence unit
\* included.
ChunkWithinSize ==
    chunk_pc = "done" =>
        \A i \in 1..Len(chunks) :
            /\ chunks[i].text # ""
            /\ Len(chunks[i].text) <= chunk_size

----------------------------------------------------------------------------
(* The inputs of the lab extraction: texts of up to MaxLabLines lines.     *)

MaxLabLines == 2

LabLines == <<
    "Hemoglobin: 9.2 g/dL (12.0-16.0) L",
    "Hemoglobin: 9.2 L",
    "Glucose: 250 critical",
    "Platelets: 2,000,000",
    "Platelets: 150,000",
    "Platelets: 80,000",
    "Platelets: 45,000. Platelets: 30,000.",
    "platelets = 999 then PLATELETS 1,000",
    "platelet: 1000000 and platelets 1,000,001 and platelets ,",
    "WBC: 99, wbc 100",
    "white blood cells: 100,000; White  Blood Cell = 100,001" >>

RECURSIVE LinesTexts(_)
LinesTexts(n) ==
    IF n = 0 THEN {""}
    ELSE IF n = 1 THEN {LabLines[i] : i \in 1..Len(LabLines)}
    ELSE {t \o "\n" \o LabLines[i] : t \in LinesTexts(n - 1), i \in 1..Len(LabLines)}

LabTexts == UNION {LinesTexts(n) : n \in 0..MaxLabLines}

InitLab ==
    /\ text \in LabTexts
    /\ page_count = 2
    /\ cls_pc = "call"
    /\ cls_scores = <<>>
    /\ cls_result = NoResult
    /\ cls_again = NoResult
    /\ lab_pc = "call"
    /\ lab_data = NoLabData
    /\ vals_pc = "call"
    /\ platelet_matches = <<>>
    /\ wbc_matches = <<>>
    /\ diagnostics = NoDiagnostics
    /\ ChunkIdle
    /\ ExtIdle
    /\ BatchIdle
    /\ GuiIdle

\* extracted_data = self.extract_lab_report_data(full_text), after the
\* classification
ExtractLabReport ==
    /\ cls_pc = "done"
    /\ lab_pc = "call"
    /\ lab_data' = extract_lab_report_data(text)
    /\ lab_pc' = "done"
    /\ UNCHANGED <<text, clsVars, chunkVars, vals_pc, platelet_matches, wbc_matches,
                   diagnostics, extVars, batchVars, guiVars>>

\* self._extract_lab_values(text, data) on a data with empty diagnostics,
\* after the classification
ExtractLabValues ==
    /\ cls_pc = "done"
    /\ vals_pc = "call"
    /\ platelet_matches' = re_findall(platelet_pattern, text)
    /\ wbc_matches' = re_findall(wbc_pattern, text)
    /\ diagnostics' = [platelets |-> PlateletsOf(platelet_matches'),
                       wbc |-> WbcOf(wbc_matches')]
    /\ vals_pc' = "done"
    /\ UNCHANGED <<text, clsVars, chunkVars, lab_pc, lab_data, extVars, batchVars, guiVars>>

NextLab == Classify \/ ExtractLabReport \/ ExtractLabValues

SpecLab == InitLab /\ [][NextLab]_vars

----------------------------------------------------------------------------
(* Properties of the lab extraction, under SpecLab                         *)

\* int(v.replace(',', '')) for the matched strings, -1 where int() fails
StrippedInts(found) ==
    [i \in 1..Len(found) |->
        IF IsInt(RemoveChar(found[i], ",")) THEN ParseInt(RemoveChar(found[i], ","))
        ELSE 0 - 1]

InPlateletWindow(v) == 1000 <= v /\ v <= 1000000

InWbcWindow(v) == 100 <= v /\ v <= 100000

\* C8: the stored platelet values are the comma-stripped integers of the
\* platelet matches that lie in [1000, 1000000], in their order, the stored
\* wbc values those of the wbc matches in [100, 100000], and a field with
\* no value left is absent.
PlausibleCounts ==
    vals_pc = "done" =>
        /\ \A e \in diagnostics.platelets :
              /\ e.values = SelectSeq(StrippedInts(platelet_matches), InPlateletWindow)
              /\ \A i \in 1..Len(e.values) : InPlateletWindow(e.values[i])
        /\ diagnostics.platelets = {}
              <=> SelectSeq(StrippedInts(platelet_matches), InPlateletWindow) = <<>>
        /\ \A e \in diagnostics.wbc :
              /\ e.values = SelectSeq(StrippedInts(wbc_matches), InWbcWindow)
              /\ \A i \in 1..Len(e.values) : InWbcWindow(e.values[i])
        /\ diagnostics.wbc = {}
              <=> SelectSeq(StrippedInts(wbc_matches), InWbcWindow) = <<>>

\* "2,000,000" is matched and dropped, "150,000" is matched and kept
PlausibleCountsWitness ==
    /\ vals_pc = "done"
    /\ platelet_matches = <<"2,000,000", "150,000">>
    /\ \E e \in diagnostics.platelets : e.values = <<150000>>

PlateletSeries == "Platelets: 45,000. Platelets: 30,000."

\* C20: when diagnostics.platelets is present its trend is "decreasing"
\* exactly when the stored series has two or more values and the last is
\* strictly less than the first, and "stable" otherwise; the text
\* "Platelets: 45,000. Platelets: 30,000." gives "decreasing".
TrendInference ==
    vals_pc = "done" =>
        /\ \A e \in diagnostics.platelets :
              /\ e.values = SelectSeq(StrippedInts(platelet_matches), InPlateletWindow)
              /\ e.trend \in {"decreasing", "stable"}
              /\ e.trend = "decreasing"
                    <=> (Len(e.values) >= 2 /\ e.values[Len(e.values)] < e.values[1])
        /\ text = PlateletSeries =>
              diagnostics.platelets = {[values |-> <<45000, 30000>>, trend |-> "decreasing"]}

TrendInferenceWitness ==
    /\ vals_pc = "done"
    /\ text = PlateletSeries
    /\ \E e \in diagnostics.platelets : e.trend = "decreasing"

HemoglobinLine == "Hemoglobin: 9.2 g/dL (12.0-16.0) L"

\* C9: for the text "Hemoglobin: 9.2 g/dL (12.0-16.0) L" with 2 pages the
\* type is LabReport and the Hemoglobin test is in abnormal_values.
HemoglobinFlagged ==
    (cls_pc = "done" /\ lab_pc = "done" /\ text = HemoglobinLine /\ page_count = 2) =>
        /\ cls_result.type = LAB_REPORT
        /\ \E i \in 1..Len(lab_data.abnormal_values) :
              lab_data.abnormal_values[i].name = "Hemoglobin"

----------------------------------------------------------------------------
(* The inputs of the extraction strategies: texts of up to MaxSentences     *)
(* phrases, each phrase written for the rules of one strategy, and a        *)
(* chapter heading whose number is longer than int() accepts.               *)

MaxSentences == 2

ExtractPhrases == <<
    "A 34-year-old woman presented with high fever and headache 3 days ago. Final diagnosis: dengue fever. Paracetamol 500 mg. She recovered.",
    "Chapter 12: Dengue\nDengue is a viral disease of the tropics. Treatment includes rest and fluids.",
    "We recommend early fluids. Aspirin is contraindicated in dengue. Monitor platelet count.",
    "Admission date: 2024-01-05\nDischarge diagnosis: DHF\nFollow-up: return to the clinic in one week.",
    "Hemoglobin: 9.2 g/dL (12.0-16.0) L",
    "Findings consistent with flu. Poor outcome. Level B evidence: oral fluids. Avoid in infants." >>

ExtractTexts ==
    UNION {{Join([i \in 1..n |-> ExtractPhrases[ix[i]]], " ") :
                ix \in [1..n -> 1..Len(ExtractPhrases)]} : n \in 0..MaxSentences}

LongChapter == "Chapter " \o Repeat("1", IntMaxStrDigits + 1) \o " Intro"

\* a complaint of 157 and a diagnosis and a contraindication of 285 characters
LongCaptures ==
    "She presented with " \o Repeat("fever and ", 15) \o "chills. Final diagnosis: "
    \o Repeat("dengue ", 40) \o "fever. Aspirin is contraindicated in "
    \o Repeat("dengue ", 40) \o "fever."

Strategies ==
    {"extract_case_report_data", "extract_textbook_data", "extract_guideline_data",
     "extract_discharge_summary_data", "extract_lab_report_data"}

InitExtract ==
    /\ \/ strategy \in Strategies /\ text \in ExtractTexts
       \/ strategy = "extract_textbook_data" /\ text = LongChapter
       \/ /\ strategy \in {"extract_case_report_data", "extract_guideline_data"}
          /\ text = LongCaptures
    /\ ext_pc = "call"
    /\ ext_result = NoExtraction
    /\ ClassifyIdle
    /\ ChunkIdle
    /\ LabIdle
    /\ BatchIdle
    /\ GuiIdle

\* the call of the method on text: it returns data or raises
ExtractWith(method) ==
    /\ strategy = method
    /\ ext_pc = "call"
    /\ ext_result' = Extract(method, text)
    /\ ext_pc' = IF ext_result'.raised = "" THEN "returned" ELSE "raised"
    /\ UNCHANGED <<text, strategy, clsVars, chunkVars, labVars, batchVars, guiVars>>

ExtractCaseReportData == ExtractWith("extract_case_report_data")

ExtractTextbookData == ExtractWith("extract_textbook_data")

ExtractGuidelineData == ExtractWith("extract_guideline_data")

ExtractDischargeSummaryData == ExtractWith("extract_discharge_summary_data")

ExtractLabReportData == ExtractWith("extract_lab_report_data")

NextExtract ==
    \/ ExtractCaseReportData \/ ExtractTextbookData \/ ExtractGuidelineData
    \/ ExtractDischargeSummaryData \/ ExtractLabReportData

SpecExtract == InitExtract /\ [][NextExtract]_vars

----------------------------------------------------------------------------
(* Properties of the extraction strategies, under SpecExtract              *)

\* the dict of a strategy with nothing extracted
Skeleton(method) ==
    CASE method = "extract_case_report_data" ->
            [document_type |-> "case_report",
             patient |-> [age |-> {}, gender |-> {}],
             timeline |-> [onset_days |-> {}, illness_day |-> {}, duration_days |-> {}],
             clinical_findings |-> [chief_complaint |-> {}],
             diagnostics |-> [platelets |-> {}, wbc |-> {}, primary_diagnosis |-> {}],
             interventions |-> [medications |-> <<>>],
             outcomes |-> [status |-> {}]]
      [] method = "extract_textbook_data" ->
            [document_type |-> "textbook", chapters |-> <<>>, diseases |-> <<>>,
             treatments |-> <<>>, key_concepts |-> <<>>, tables |-> <<>>, figures |-> <<>>]
      [] method = "extract_guideline_data" ->
            [document_type |-> "clinical_guideline", recommendations |-> <<>>,
             algorithms |-> <<>>, evidence_levels |-> {}, contraindications |-> <<>>,
             monitoring |-> <<>>]
      [] method = "extract_discharge_summary_data" ->
            [document_type |-> "discharge_summary",
             admission |-> [date |-> {}, diagnosis |-> {}],
             discharge |-> [date |-> {}, diagnosis |-> {}],
             hospital_course |-> "",
             medications |-> [admission |-> <<>>, discharge |-> <<>>],
             follow_up |-> <<>>]
      [] method = "extract_lab_report_data" -> NoLabData

\* C13: every strategy returns a record for every text and never raises,
\* and for the empty string it returns its skeleton with no field populated.
ExtractionNeverRaises ==
    ext_pc \in {"returned", "raised"} =>
        /\ ext_pc = "returned"
        /\ ext_result.raised = ""
        /\ text = "" => ext_result.data = Skeleton(strategy)

\* the patterns of the list that match somewhere in the text
MatchingIn(patterns, txt) == {i \in 1..Len(patterns) : Matches(patterns[i], txt, TRUE)}

LeastOf(S) == CHOOSE i \in S : \A j \in S : i <= j

\* the capture of the leftmost match of one pattern
CaptureOf(pattern, txt) == Group(txt, re_search(pattern, txt, TRUE, 2), 1, 2)

\* the capture of the first pattern of the list that matches, if any
FirstMatching(patterns, txt, matching) ==
    IF matching = {} THEN {} ELSE {CaptureOf(patterns[LeastOf(matching)], txt)}

\* the matches of every pattern of the list, each with its capture groups
RECURSIVE MatchesOfAll(_, _, _, _)
MatchesOfAll(patterns, txt, nmarks, i) ==
    IF i > Len(patterns) THEN <<>>
    ELSE re_finditer(patterns[i], txt, TRUE, nmarks)
         \o MatchesOfAll(patterns, txt, nmarks, i + 1)

Earlier(m1, m2) == m1.start < m2.start

\* the same matches in the order in which they occur in the text
InDocumentOrder(ms) == SortSeq(ms, Earlier)

GuidelineReturned == strategy = "extract_guideline_data" /\ ext_pc = "returned"

\* C22: recommendations and contraindications hold one entry for every match
\* of every one of their patterns, duplicates included, in the order in which
\* the matches occur in the text.
DocumentOrder ==
    GuidelineReturned =>
        /\ ext_result.data.contraindications
              = StrippedGroup(text, InDocumentOrder(MatchesOfAll(contra_patterns, text, 2, 1)),
                              1, 2)
        /\ ext_result.data.recommendations
              = RecommendationsOf(text,
                                  InDocumentOrder(MatchesOfAll(rec_patterns, text, 4, 1)))

\* presented\s+with\s+([^\.]+): the complaint up to the end of its sentence
whole_complaint_pattern ==
    << Lit("presented"), Spaces, Lit("with"), Spaces, Mark(1), NotDot, Mark(2) >>

Trimmed(s) == Strip(s) = s

\* C23: the free-text captures of a stored record are trimmed and no longer
\* than about 200 characters (single-line fields), and a stored capture is the
\* whole capture, never a truncated one: the chief complaint, when stored, is
\* the complaint up to the end of its sentence.
CapturesBounded ==
    /\ (strategy = "extract_case_report_data" /\ ext_pc = "returned") =>
          /\ \A g \in ext_result.data.diagnostics.primary_diagnosis
                      \cup ext_result.data.clinical_findings.chief_complaint :
                Trimmed(g) /\ Len(g) <= 200
          /\ \A g \in ext_result.data.clinical_findings.chief_complaint :
                g = Strip(CaptureOf(whole_complaint_pattern, text))
    /\ (strategy = "extract_guideline_data" /\ ext_pc = "returned") =>
          /\ \A i \in 1..Len(ext_result.data.contraindications) :
                /\ Trimmed(ext_result.data.contraindications[i])
                /\ Len(ext_result.data.contraindications[i]) <= 200
          /\ \A i \in 1..Len(ext_result.data.recommendations) :
                /\ Trimmed(ext_result.data.recommendations[i].text)
                /\ Len(ext_result.data.recommendations[i].text) <= 200

CaseReportReturned == strategy = "extract_case_report_data" /\ ext_pc = "returned"

\* C21: primary_diagnosis is the trimmed capture of the first of the
\* patterns diagnosis, diagnosed with, consistent with that matches anywhere
\* in the text, wherever the later patterns match, and absent when none
\* matches; outcomes.status is the capture of the first of its patterns that
\* matches.
FirstMatchWins ==
    CaseReportReturned =>
        /\ ext_result.data.diagnostics.primary_diagnosis
              = {Strip(g) : g \in FirstMatching(dx_patterns, text,
                                                MatchingIn(dx_patterns, text))}
        /\ ext_result.data.outcomes.status
              = FirstMatching(outcome_patterns, text, MatchingIn(outcome_patterns, text))

StartOf(pattern, txt) == re_search(pattern, txt, TRUE, 2).start

\* "consistent with" and "poor outcome" stand before "diagnosis:" and
\* "recovered" in the text, and the fields hold the captures of the latter
FirstMatchWinsWitness ==
    /\ CaseReportReturned
    /\ MatchingIn(dx_patterns, text) = {1, 3}
    /\ StartOf(dx_patterns[3], text) < StartOf(dx_patterns[1], text)
    /\ ext_result.data.diagnostics.primary_diagnosis = {"dengue fever"}
    /\ MatchingIn(outcome_patterns, text) = {1, 3}
    /\ StartOf(outcome_patterns[3], text) < StartOf(outcome_patterns[1], text)
    /\ ext_result.data.outcomes.status = {"recovered"}

----------------------------------------------------------------------------
(* The batch run: main's command-line loop, the GUI worker, and process_pdf *)
(* as the steps of its try block.  A file of the batch is a record of its   *)
(* path and of what the file system and the PDF library give for it:        *)
(* whether it exists, the step of process_pdf that raises for it ("none",   *)
(* "open", "read", "save"), its text, its pages, the number of images       *)
(* extracted from it and the digest that names it.                          *)

MaxFiles == 2

Files ==
    { [path |-> "in/lab.pdf", exists |-> TRUE, fault |-> "none", doc_id |-> "0a6c1f2e9b3d",
       text |-> "Hemoglobin: 9.2 g/dL (12.0-16.0) L", pages |-> 2,
       images |-> <<[page_num |-> 1, image_list |-> <<"ok">>]>>],
      [path |-> "empty.PDF", exists |-> TRUE, fault |-> "none", doc_id |-> "a2e4822a98e3",
       text |-> "", pages |-> 0, images |-> <<>>],
      [path |-> "missing.pdf", exists |-> FALSE, fault |-> "open", doc_id |-> "e3b0c44298fc",
       text |-> "", pages |-> 0, images |-> <<>>],
      [path |-> "corrupt.pdf", exists |-> TRUE, fault |-> "open", doc_id |-> "5d41402abc4b",
       text |-> "", pages |-> 0, images |-> <<>>],
      [path |-> "scan.pdf", exists |-> TRUE, fault |-> "read", doc_id |-> "7d793037a076",
       text |-> "", pages |-> 3, images |-> <<>>],
      [path |-> "locked.pdf", exists |-> TRUE, fault |-> "save", doc_id |-> "9b74c9897bac",
       text |-> "the patient. the diagnosis", pages |-> 60, images |-> <<>>],
      [path |-> "notes.txt", exists |-> TRUE, fault |-> "none", doc_id |-> "c3fcd3d76192",
       text |-> "nothing to see", pages |-> 1, images |-> <<>>] }

Batches == UNION {[1..n -> Files] : n \in 0..MaxFiles}

\* f.lower().endswith('.pdf')
IsPdfName(f) == EndsWith(Lower(f.path), ".pdf")

InitBatch ==
    /\ mode \in {"cli", "gui"}
    /\ argv \in Batches
    /\ pdf_files = <<>>
    /\ file_idx = 0
    /\ batch_pc = "start"
    /\ proc_pc = "idle"
    /\ proc_doc = NoDoc
    /\ proc_out = NoOutput
    /\ vector_db_files = <<>>
    /\ proc_strategy = ""
    /\ proc_error = ""
    /\ processed_files = <<>>
    /\ failed_files = <<>>
    /\ self_doc_type_patterns = doc_type_patterns
    /\ GuiIdle
    /\ text = ""
    /\ ClassifyIdle
    /\ ChunkIdle
    /\ LabIdle
    /\ ExtIdle

\* main, command line mode: the arguments that name PDF files; none of
\* them ends the run with sys.exit(1)
StartCli ==
    /\ mode = "cli"
    /\ batch_pc = "start"
    /\ argv # <<>>
    /\ pdf_files' = SelectSeq(argv, IsPdfName)
    /\ batch_pc' = IF pdf_files' = <<>> THEN "exit" ELSE "loop"
    /\ file_idx' = 1
    /\ UNCHANGED <<text, clsVars, chunkVars, labVars, extVars, mode, argv, proc_pc, proc_doc,
                   proc_error, processed_files, failed_files,
                   proc_strategy, self_doc_type_patterns,
                   proc_out, vector_db_files, guiVars>>

\* select_files and process_files: the selected files, when there are some
StartGui ==
    /\ mode = "gui"
    /\ batch_pc = "start"
    /\ argv # <<>>
    /\ pdf_files' = argv
    /\ batch_pc' = "loop"
    /\ file_idx' = 1
    /\ UNCHANGED <<text, clsVars, chunkVars, labVars, extVars, mode, argv, proc_pc, proc_doc,
                   proc_error, processed_files, failed_files,
                   proc_strategy, self_doc_type_patterns,
                   proc_out, vector_db_files, guiVars>>

AtFile == batch_pc = "loop" /\ proc_pc = "idle" /\ file_idx <= Len(pdf_files)

\* if os.path.exists(pdf): extractor.process_pdf(pdf)
CliProcess ==
    /\ mode = "cli"
    /\ AtFile
    /\ pdf_files[file_idx].exists
    /\ proc_pc' = "open"
    /\ proc_doc' = NoDoc
    /\ proc_strategy' = ""
    /\ proc_out' = NoOutput
    /\ UNCHANGED <<text, clsVars, chunkVars, labVars, extVars, mode, argv, pdf_files, file_idx,
                   batch_pc, proc_error, processed_files, failed_files,
                   self_doc_type_patterns, vector_db_files, guiVars>>

\* else: print("File not found")
CliFileNotFound ==
    /\ mode = "cli"
    /\ AtFile
    /\ ~pdf_files[file_idx].exists
    /\ file_idx' = file_idx + 1
    /\ UNCHANGED <<text, clsVars, chunkVars, labVars, extVars, mode, argv, pdf_files, batch_pc,
                   proc_pc, proc_doc, proc_error, processed_files, failed_files,
                   proc_strategy, self_doc_type_patterns,
                   proc_out, vector_db_files, guiVars>>

\* result = self.extractor.process_pdf(pdf, ...)
GuiProcess ==
    /\ mode = "gui"
    /\ AtFile
    /\ proc_pc' = "open"
    /\ proc_doc' = NoDoc
    /\ proc_strategy' = ""
    /\ proc_out' = NoOutput
    /\ UNCHANGED <<text, clsVars, chunkVars, labVars, extVars, mode, argv, pdf_files, file_idx,
                   batch_pc, proc_error, processed_files, failed_files,
                   self_doc_type_patterns, vector_db_files, guiVars>>

\* a step of the try block that raises for the file, or goes on
Raise(step, next, message) ==
    /\ proc_pc = step
    /\ IF pdf_files[file_idx].fault = step
       THEN proc_pc' = "except" /\ proc_error' = message
       ELSE proc_pc' = next /\ proc_error' = proc_error

\* doc = fitz.open(pdf_path)
ProcOpen ==
    /\ Raise("open", "read", "cannot open file")
    /\ UNCHANGED <<text, clsVars, chunkVars, labVars, extVars, mode, argv, pdf_files, file_idx,
                   batch_pc, proc_doc, processed_files, failed_files,
                   proc_strategy, self_doc_type_patterns,
                   proc_out, vector_db_files, guiVars>>

\* full_text += page.get_text()
ProcRead ==
    /\ Raise("read", "classify", "cannot read page")
    /\ UNCHANGED <<text, clsVars, chunkVars, labVars, extVars, mode, argv, pdf_files, file_idx,
                   batch_pc, proc_doc, processed_files, failed_files,
                   proc_strategy, self_doc_type_patterns,
                   proc_out, vector_db_files, guiVars>>

\* doc_type, confidence = self.classify_document(full_text, page_count)
Classified(cls) == [type |-> cls.type, confidence |-> cls.confidence, chunks |-> 0]

ProcClassify ==
    /\ proc_pc = "classify"
    /\ proc_doc' = Classified(classify_document(pdf_files[file_idx].text,
                                                pdf_files[file_idx].pages))
    /\ proc_pc' = "extract"
    /\ UNCHANGED <<text, clsVars, chunkVars, labVars, extVars, mode, argv, pdf_files, file_idx,
                   batch_pc, proc_strategy, proc_error, processed_files, failed_files,
                   self_doc_type_patterns,
                   proc_out, vector_db_files, guiVars>>

\* the types without a strategy of their own are given that of the textbook
StrategyOfTextbookElse(dt) ==
    CASE dt = CASE_REPORT -> "extract_case_report_data"
      [] dt = CLINICAL_GUIDELINE -> "extract_guideline_data"
      [] dt = DISCHARGE_SUMMARY -> "extract_discharge_summary_data"
      [] dt = LAB_REPORT -> "extract_lab_report_data"
      [] OTHER -> "extract_textbook_data"

\* if doc_type == DocumentType.CASE_REPORT: ... elif ... else: the method
\* that process_pdf calls for a type
StrategyOf(dt) ==
    CASE dt = CASE_REPORT -> "extract_case_report_data"
      [] dt = TEXTBOOK -> "extract_textbook_data"
      [] dt = CLINICAL_GUIDELINE -> "extract_guideline_data"
      [] dt = DISCHARGE_SUMMARY -> "extract_discharge_summary_data"
      [] dt = LAB_REPORT -> "extract_lab_report_data"
      [] OTHER -> "extract_case_report_data"

\* str(e) of the ValueError of int()
IntLimitMessage == "Exceeds the limit (4300 digits) for integer string conversion"

\* extracted_data = self.extract_..._data(full_text): the method returns, or
\* its exception is caught by process_pdf
ExtractOutcome(result) ==
    IF result.raised = ""
    THEN /\ proc_pc' = "chunk"
         /\ proc_error' = proc_error
         /\ proc_out' = [proc_out EXCEPT !.extracted_data = {result.data}]
    ELSE /\ proc_pc' = "except"
         /\ proc_error' = IntLimitMessage
         /\ proc_out' = proc_out

ProcExtract ==
    /\ proc_pc = "extract"
    /\ proc_strategy' = StrategyOf(proc_doc.type)
    /\ ExtractOutcome(Extract(proc_strategy', pdf_files[file_idx].text))
    /\ UNCHANGED <<text, clsVars, chunkVars, labVars, extVars, mode, argv, pdf_files, file_idx,
                   batch_pc, proc_doc, processed_files, failed_files,
                   self_doc_type_patterns, vector_db_files, guiVars>>

\* the metadata passed to create_specialized_chunks
DocMetadata(f) == [doc_id |-> {f.doc_id}]

\* for img_index, img in enumerate(image_list): the img_info of the images
\* of one page; an image whose Pixmap raises is skipped and keeps its index
ImagesOfPage(page, dt) ==
    SelectSeq([img_index \in 1..Len(page.image_list) |->
                   [page |-> page.page_num + 1,
                    index |-> img_index,
                    ok |-> page.image_list[img_index] = "ok",
                    document_type |-> dt]],
              LAMBDA img_info : img_info.ok)

\* for page_num, page in enumerate(doc): the images of the pages in turn;
\* pages lists the pages that hold images
RECURSIVE ImagesFrom(_, _, _)
ImagesFrom(pages, dt, i) ==
    IF i > Len(pages) THEN <<>>
    ELSE ImagesOfPage(pages[i], dt) \o ImagesFrom(pages, dt, i + 1)

extract_images_with_context(f, dt) == ImagesFrom(f.images, dt, 1)

\* the dict appended to image_chunks for img; its caption, file name and
\* relevance are left out
ImageChunk(img, dt, md) ==
    [chunk_id |-> DocIdOf(md) \o "_img_" \o IntToStr(img.index),
     metadata |-> [doc_id |-> md.doc_id,
                   chunk_type |-> "image",
                   page |-> img.page,
                   document_type |-> dt]]

\* for img in images: image_chunks.append({...})
ImageChunks(images, dt, md) == [i \in 1..Len(images) |-> ImageChunk(images[i], dt, md)]

\* images = self.extract_images_with_context(...);
\* text_chunks = self.create_specialized_chunks(full_text, doc_type, doc_metadata)
\* and the image chunks
ChunksOf(f, dt, extracted_data) ==
    [extracted_data |-> extracted_data,
     text_chunks |-> create_specialized_chunks(f.text, dt, DocMetadata(f)),
     image_chunks |-> ImageChunks(extract_images_with_context(f, dt), dt, DocMetadata(f))]

ProcChunk ==
    /\ proc_pc = "chunk"
    /\ proc_out' = ChunksOf(pdf_files[file_idx], proc_doc.type, proc_out.extracted_data)
    /\ proc_doc' = [proc_doc EXCEPT
                        !.chunks = Len(proc_out'.text_chunks) + Len(proc_out'.image_chunks)]
    /\ proc_pc' = "save"
    /\ UNCHANGED <<text, clsVars, chunkVars, labVars, extVars, mode, argv, pdf_files, file_idx,
                   batch_pc, proc_strategy, proc_error, processed_files, failed_files,
                   self_doc_type_patterns, vector_db_files, guiVars>>

\* the entry of self.processed_files
ProcessedEntry(f, d) ==
    [file |-> Basename(f.path),
     type |-> d.type,
     confidence |-> d.confidence,
     folder |-> d.type \o "_" \o Stem(f.path),
     chunks |-> d.chunks]

\* vector_db_data = {...}; 'total_chunks': len(text_chunks) + len(image_chunks)
VectorDbData(f, d, out) ==
    [document_id |-> f.doc_id,
     document_type |-> d.type,
     type_confidence |-> d.confidence,
     extracted_data |-> out.extracted_data,
     text_chunks |-> out.text_chunks,
     image_chunks |-> out.image_chunks,
     total_chunks |-> Len(out.text_chunks) + Len(out.image_chunks)]

\* the outputs are written; self.processed_files.append(...); return case_folder
ProcSave ==
    /\ Raise("save", "idle", "cannot write output")
    /\ vector_db_files' =
          IF proc_pc' = "idle"
          THEN Append(vector_db_files, VectorDbData(pdf_files[file_idx], proc_doc, proc_out))
          ELSE vector_db_files
    /\ processed_files' =
          IF proc_pc' = "idle"
          THEN Append(processed_files, ProcessedEntry(pdf_files[file_idx], proc_doc))
          ELSE processed_files
    /\ file_idx' = IF proc_pc' = "idle" THEN file_idx + 1 ELSE file_idx
    /\ UNCHANGED <<text, clsVars, chunkVars, labVars, extVars, mode, argv, pdf_files, batch_pc,
                   proc_doc, failed_files,
                   proc_strategy, self_doc_type_patterns, proc_out, guiVars>>

\* except Exception as e: self.failed_files.append(...); return None
ProcExcept ==
    /\ proc_pc = "except"
    /\ failed_files' = Append(failed_files,
                              [file |-> Basename(pdf_files[file_idx].path),
                               error |-> proc_error])
    /\ proc_pc' = "idle"
    /\ file_idx' = file_idx + 1
    /\ UNCHANGED <<text, clsVars, chunkVars, labVars, extVars, mode, argv, pdf_files, batch_pc,
                   proc_doc, proc_error, processed_files,
                   proc_strategy, self_doc_type_patterns,
                   proc_out, vector_db_files, guiVars>>

\* create_master_report() after the loop
Report ==
    /\ batch_pc = "loop"
    /\ proc_pc = "idle"
    /\ file_idx > Len(pdf_files)
    /\ batch_pc' = "done"
    /\ UNCHANGED <<text, clsVars, chunkVars, labVars, extVars, mode, argv, pdf_files, file_idx,
                   proc_pc, proc_doc, proc_error, processed_files, failed_files,
                   proc_strategy, self_doc_type_patterns,
                   proc_out, vector_db_files, guiVars>>

NextBatch ==
    \/ StartCli \/ StartGui
    \/ CliProcess \/ CliFileNotFound \/ GuiProcess
    \/ ProcOpen \/ ProcRead \/ ProcClassify \/ ProcExtract \/ ProcChunk
    \/ ProcSave \/ ProcExcept
    \/ Report

SpecBatch == InitBatch /\ [][NextBatch]_vars

----------------------------------------------------------------------------
(* Properties of the batch run, under SpecBatch                            *)

\* how many entries of the list of dicts name the file
Recorded(entries, name) == Cardinality({i \in 1..Len(entries) : entries[i].file = name})

InBatch(name) == Cardinality({i \in 1..Len(pdf_files) : Basename(pdf_files[i].path) = name})

\* C10: at the end of a batch run every document of the batch is recorded
\* exactly once, in processed_files or in failed_files, so the number of
\* recorded outcomes is the number of documents of the batch.
BatchAllRecorded ==
    batch_pc = "done" =>
        /\ Len(processed_files) + Len(failed_files) = Len(pdf_files)
        /\ \A i \in 1..Len(pdf_files) :
              Recorded(processed_files, Basename(pdf_files[i].path))
              + Recorded(failed_files, Basename(pdf_files[i].path))
                 = InBatch(Basename(pdf_files[i].path))

----------------------------------------------------------------------------
(* One call of process_pdf from the command line or from the GUI, on a      *)
(* document of any type: the files of the batch run, and one document for   *)
(* each type that classify_document returns.  The last document is a        *)
(* textbook whose second chapter number is longer than int() accepts.       *)

TypedFiles ==
    { [path |-> "case.pdf", exists |-> TRUE, fault |-> "none", doc_id |-> "1f3870be274f",
       text |-> "case report: the patient presented with fever. a 34-year-old woman",
       pages |-> 5, images |-> <<>>],
      [path |-> "book.pdf", exists |-> TRUE, fault |-> "none", doc_id |-> "821f03288846",
       text |-> "Chapter 1: Introduction. learning objectives. Dengue is a viral disease of the tropics.",
       pages |-> 120,
       images |-> <<[page_num |-> 3, image_list |-> <<"ok", "broken", "ok">>],
                    [page_num |-> 7, image_list |-> <<"ok">>]>>],
      [path |-> "who.pdf", exists |-> TRUE, fault |-> "none", doc_id |-> "53d670af9bb1",
       text |-> "guideline recommendation protocol. We recommend early fluids.",
       pages |-> 20, images |-> <<>>],
      [path |-> "discharge.pdf", exists |-> TRUE, fault |-> "none", doc_id |-> "b8a9f715dbb6",
       text |-> "discharge summary. Admission date: 2024-01-05\nhospital course and discharge medications",
       pages |-> 3, images |-> <<>>],
      [path |-> "trial.pdf", exists |-> TRUE, fault |-> "none", doc_id |-> "2c6ee24b0981",
       text |-> "abstract methods results conclusion. study design randomized p < 0.05",
       pages |-> 10, images |-> <<[page_num |-> 0, image_list |-> <<"ok">>]>>],
      [path |-> "cbc.pdf", exists |-> TRUE, fault |-> "none", doc_id |-> "9c1185a5c5e9",
       text |-> "laboratory report. specimen collected. reference range. Hemoglobin: 9.2 g/dL (12.0-16.0) L",
       pages |-> 2, images |-> <<>>],
      [path |-> "ct.pdf", exists |-> TRUE, fault |-> "none", doc_id |-> "4a8a08f09d37",
       text |-> "radiology report. impression: findings: ct scan technique",
       pages |-> 2, images |-> <<>>],
      [path |-> "atlas.pdf", exists |-> TRUE, fault |-> "none", doc_id |-> "f5ac8127b3b6",
       text |-> "Chapter 1: Dengue.\n" \o Repeat(" ", ClassifyWindow) \o LongChapter,
       pages |-> 120, images |-> <<>>] }

Documents == Files \cup TypedFiles

InitProcess ==
    /\ mode \in {"cli", "gui"}
    /\ argv \in {<<f>> : f \in Documents}
    /\ pdf_files = <<>>
    /\ file_idx = 0
    /\ batch_pc = "start"
    /\ proc_pc = "idle"
    /\ proc_doc = NoDoc
    /\ proc_out = NoOutput
    /\ vector_db_files = <<>>
    /\ proc_strategy = ""
    /\ proc_error = ""
    /\ processed_files = <<>>
    /\ failed_files = <<>>
    /\ self_doc_type_patterns = doc_type_patterns
    /\ GuiIdle
    /\ text = ""
    /\ ClassifyIdle
    /\ ChunkIdle
    /\ LabIdle
    /\ ExtIdle

SpecProcess == InitProcess /\ [][NextBatch]_vars

----------------------------------------------------------------------------
(* Properties of process_pdf, under SpecProcess                            *)

\* the strategy named for each type
StrategyByType ==
    [dt \in DocumentType |->
        CASE dt = CASE_REPORT -> "extract_case_report_data"
          [] dt = TEXTBOOK -> "extract_textbook_data"
          [] dt = CLINICAL_GUIDELINE -> "extract_guideline_data"
          [] dt = DISCHARGE_SUMMARY -> "extract_discharge_summary_data"
          [] dt = LAB_REPORT -> "extract_lab_report_data"
          [] dt \in {RESEARCH_ARTICLE, RADIOLOGY_REPORT, UNKNOWN} -> "extract_case_report_data"]

\* the type classify_document returns for a document
TypeOf(f) == classify_document(f.text, f.pages).type

\* C15: in process_pdf nothing is selected or chunked before classification
\* has returned; the strategy that runs is the one of the type classification
\* returned for the document being processed, with the case report strategy
\* for research articles, radiology reports and unknown documents; and
\* chunking has not started while the strategy is selected.
DispatchByType ==
    /\ proc_pc \in {"open", "read", "classify"} => proc_strategy = "" /\ proc_doc = NoDoc
    /\ proc_pc = "extract" =>
          /\ proc_strategy = ""
          /\ proc_doc.type = TypeOf(pdf_files[file_idx])
          /\ proc_doc.chunks = 0
    /\ proc_pc \in {"chunk", "save", "except"} /\ proc_strategy # "" =>
          /\ proc_doc.type = TypeOf(pdf_files[file_idx])
          /\ proc_strategy = StrategyByType[proc_doc.type]
    /\ proc_pc \in {"chunk", "save"} => proc_strategy # ""
    /\ proc_pc = "chunk" => proc_doc.chunks = 0

\* a radiology report went through the case report strategy and is about to
\* be chunked
DispatchByTypeWitness ==
    /\ proc_pc = "chunk"
    /\ proc_doc.type = RADIOLOGY_REPORT
    /\ proc_strategy = "extract_case_report_data"

\* the chunk ids of a written record, text chunks first
ChunkIds(data) ==
    [i \in 1..Len(data.text_chunks) |-> data.text_chunks[i].chunk_id]
    \o [i \in 1..Len(data.image_chunks) |-> data.image_chunks[i].chunk_id]

Distinct(ids) == \A i, j \in 1..Len(ids) : i # j => ids[i] # ids[j]

\* C26: within one written record the chunk ids are pairwise distinct,
\* across text_chunks and image_chunks together, whatever the number of
\* pages and of images on a page.
ChunkIdsDistinct ==
    \A k \in 1..Len(vector_db_files) : Distinct(ChunkIds(vector_db_files[k]))

\* C27: in every written record the document_type of extracted_data is the
\* value of the classified type, the record's own document_type, for each
\* of the eight types.
TypeTagAgrees ==
    \A k \in 1..Len(vector_db_files) :
        \A extracted_data \in vector_db_files[k].extracted_data :
            extracted_data.document_type = vector_db_files[k].document_type

----------------------------------------------------------------------------
(* A session of one extractor object: classify_document and                 *)
(* create_specialized_chunks are called on a text, then process_pdf runs    *)
(* on a file from the command line or the GUI, then an extract_*_data       *)
(* method is called on the text and the two first calls are made again on   *)
(* the same arguments.                                                      *)

SessionCalls ==
    { [text |-> ExtractPhrases[1] \o " " \o Repeat("The fever went on. ", 30),
       pages |-> 5, doc_type |-> CASE_REPORT, metadata |-> [doc_id |-> {"9e107d9d372b"}],
       strategy |-> "extract_case_report_data"],
      [text |-> Repeat(ExtractPhrases[5] \o ". ", 10),
       pages |-> 2, doc_type |-> LAB_REPORT, metadata |-> [doc_id |-> {}],
       strategy |-> "extract_lab_report_data"],
      [text |-> ExtractPhrases[2],
       pages |-> 120, doc_type |-> TEXTBOOK, metadata |-> [doc_id |-> {"821f03288846"}],
       strategy |-> "extract_textbook_data"],
      [text |-> "",
       pages |-> 0, doc_type |-> UNKNOWN, metadata |-> [doc_id |-> {}],
       strategy |-> "extract_guideline_data"],
      [text |-> ExtractPhrases[3] \o " " \o ExtractPhrases[4],
       pages |-> 20, doc_type |-> CLINICAL_GUIDELINE, metadata |-> [doc_id |-> {"53d670af9bb1"}],
       strategy |-> "extract_discharge_summary_data"],
      [text |-> ExtractPhrases[4] \o " " \o ExtractPhrases[3],
       pages |-> 3, doc_type |-> DISCHARGE_SUMMARY, metadata |-> [doc_id |-> {"b8a9f715dbb6"}],
       strategy |-> "extract_guideline_data"] }

\* the arguments of the calls of the session
CallOf(call) ==
    /\ text = call.text
    /\ page_count = call.pages
    /\ doc_type = call.doc_type
    /\ metadata = call.metadata
    /\ strategy = call.strategy

InitSession ==
    /\ \E call \in SessionCalls : CallOf(call)
    /\ cls_pc = "call"
    /\ cls_scores = <<>>
    /\ cls_result = NoResult
    /\ cls_again = NoResult
    /\ chunk_size = 0
    /\ overlap = 0
    /\ chunk_pc = "call"
    /\ sentences = <<>>
    /\ rollovers = <<>>
    /\ chunks = <<>>
    /\ chunks_again = <<>>
    /\ ext_pc = "call"
    /\ ext_result = NoExtraction
    /\ mode \in {"cli", "gui"}
    /\ argv \in {<<f>> : f \in Files}
    /\ pdf_files = <<>>
    /\ file_idx = 0
    /\ batch_pc = "start"
    /\ proc_pc = "idle"
    /\ proc_doc = NoDoc
    /\ proc_out = NoOutput
    /\ vector_db_files = <<>>
    /\ proc_strategy = ""
    /\ proc_error = ""
    /\ processed_files = <<>>
    /\ failed_files = <<>>
    /\ self_doc_type_patterns = doc_type_patterns
    /\ GuiIdle
    /\ LabIdle

\* the batch has ended: the report was written, or no PDF file was named
BatchOver == batch_pc \in {"done", "exit"}

\* the first call of classify_document, before the batch
FirstClassify == batch_pc = "start" /\ Classify

\* the first call of create_specialized_chunks, before the batch
FirstChunk == batch_pc = "start" /\ cls_pc = "done" /\ Chunk

\* the call of the extract_*_data method, after the batch
ExtractAfter == BatchOver /\ chunk_pc = "done" /\ NextExtract

\* classify_document called again on the same text and page count
ClassifyAgain ==
    /\ BatchOver
    /\ ext_pc \in {"returned", "raised"}
    /\ cls_pc = "done"
    /\ cls_again' = classify_document(text, page_count)
    /\ cls_pc' = "again"
    /\ UNCHANGED <<text, page_count, cls_scores, cls_result, chunkVars, labVars, extVars,
                   batchVars, guiVars>>

\* create_specialized_chunks with metadata.update(...) for {**metadata, ...}
ChunkAgainInPlace ==
    /\ cls_pc = "again"
    /\ chunk_pc = "done"
    /\ chunks_again' = create_specialized_chunks(text, doc_type, metadata)
    /\ chunk_pc' = "again"
    /\ metadata' = [doc_id |-> metadata.doc_id \cup {"chunk"}]
    /\ UNCHANGED <<text, doc_type, chunk_size, overlap, sentences, rollovers, chunks,
                   clsVars, labVars, extVars, batchVars, guiVars>>

\* create_specialized_chunks called again on the same text, type and metadata
ChunkAgain ==
    /\ cls_pc = "again"
    /\ chunk_pc = "done"
    /\ chunks_again' = create_specialized_chunks(text, doc_type, metadata)
    /\ chunk_pc' = "again"
    /\ UNCHANGED <<text, doc_type, metadata, chunk_size, overlap, sentences, rollovers,
                   chunks, clsVars, labVars, extVars, batchVars, guiVars>>

NextSession ==
    \/ FirstClassify \/ FirstChunk
    \/ NextBatch
    \/ ExtractAfter
    \/ ClassifyAgain \/ ChunkAgain

SpecSession == InitSession /\ [][NextSession]_vars

----------------------------------------------------------------------------
(* Properties of the calls of a session, under SpecSession                 *)

\* C11: a second call of classify_document on the same text and page count
\* returns the same (type, confidence), and a second call of
\* create_specialized_chunks on the same text, type and metadata returns the
\* same chunks with the same chunk ids, whatever was processed in between.
Determinism ==
    /\ cls_pc = "again" => cls_again = cls_result
    /\ chunk_pc = "again" =>
          /\ chunks_again = chunks
          /\ \A i \in 1..Len(chunks) : chunks_again[i].chunk_id = chunks[i].chunk_id

\* both calls were made again after a document was processed in between, and
\* the text was cut into several chunks
DeterminismWitness ==
    /\ cls_pc = "again"
    /\ chunk_pc = "again"
    /\ processed_files # <<>>
    /\ cls_result.type = CASE_REPORT
    /\ Len(chunks) > 1

\* a call of classify_document, of an extract_*_data method or of
\* create_specialized_chunks
PureCall ==
    \/ FirstClassify \/ ClassifyAgain
    \/ FirstChunk \/ ChunkAgain
    \/ ExtractAfter

\* C12: classify_document, the extract_*_data methods and
\* create_specialized_chunks leave doc_type_patterns, processed_files,
\* failed_files and the caller's metadata as they were before the call.
SharedStateKept ==
    [][PureCall => UNCHANGED <<self_doc_type_patterns, processed_files, failed_files,
                               metadata>>]_vars

\* the three kinds of call were made on an extractor that has processed one
\* document and failed on none, with a metadata that names a document
SharedStateKeptWitness ==
    /\ cls_pc = "again"
    /\ chunk_pc = "again"
    /\ ext_pc = "returned"
    /\ Len(processed_files) = 1
    /\ metadata.doc_id # {}


----------------------------------------------------------------------------
(* The GUI: IntelligentGUI with its Browse and Process buttons.  The main   *)
(* thread handles the clicks; process_files starts a worker thread that     *)
(* runs beside it.  A worker reads self.extractor and self.selected_files   *)
(* each time its code names them.                                           *)

MaxWorkers == 2

FileNamed(path) == CHOOSE f \in Files : f.path = path

\* what the file dialog returns: two selections of files (a cancelled
\* dialog returns none and select_files changes nothing)
Selections ==
    { <<FileNamed("in/lab.pdf")>>,
      <<FileNamed("corrupt.pdf"), FileNamed("notes.txt")>> }

\* process_pdf returns the case folder, or None after an exception
Processes(f) == f.exists /\ f.fault = "none"

NewWorker ==
    [pc |-> "new", files |-> <<>>, idx |-> 0, extractor |-> 0, result |-> FALSE,
     last_processed |-> ""]

Running(w) == workers[w].pc \notin {"done", "died"}

InitGui ==
    /\ text = ""
    /\ ClassifyIdle
    /\ ChunkIdle
    /\ LabIdle
    /\ ExtIdle
    /\ BatchIdle
    /\ GuiIdle

\* select_files: if files: self.selected_files = list(files); ...;
\* self.process_btn.config(state='normal')
SelectFiles ==
    /\ \E files \in Selections :
          /\ selected_files' = files
          /\ process_btn' = "normal"
    /\ UNCHANGED <<text, clsVars, chunkVars, labVars, extVars, batchVars, self_extractor,
                   extractors, workers>>

\* process_files, on a click of the enabled Process button:
\* self.process_btn.config(state='disabled'); ...; thread.start()
ProcessFiles ==
    /\ process_btn = "normal"
    /\ Len(workers) < MaxWorkers
    /\ process_btn' = "disabled"
    /\ workers' = Append(workers, NewWorker)
    /\ UNCHANGED <<text, clsVars, chunkVars, labVars, extVars, batchVars, selected_files,
                   self_extractor, extractors>>

\* worker: self.extractor = IntelligentClinicalExtractor()
WorkerNew(w) ==
    /\ workers[w].pc = "new"
    /\ extractors' = Append(extractors, <<>>)
    /\ self_extractor' = Len(extractors) + 1
    /\ workers' = [workers EXCEPT ![w].pc = "for"]
    /\ UNCHANGED <<text, clsVars, chunkVars, labVars, extVars, batchVars, process_btn,
                   selected_files>>

\* worker: for pdf in self.selected_files: the loop runs over the list
\* that the attribute names at this moment
WorkerFor(w) ==
    /\ workers[w].pc = "for"
    /\ workers' = [workers EXCEPT ![w].files = selected_files, ![w].idx = 1, ![w].pc = "loop"]
    /\ UNCHANGED <<text, clsVars, chunkVars, labVars, extVars, batchVars, process_btn,
                   selected_files, self_extractor, extractors>>

\* worker: self.extractor.process_pdf(pdf, ...) is called on the object that
\* self.extractor names at this moment
WorkerCall(w) ==
    /\ workers[w].pc = "loop"
    /\ workers[w].idx <= Len(workers[w].files)
    /\ workers' = [workers EXCEPT ![w].extractor = self_extractor, ![w].pc = "process_pdf"]
    /\ UNCHANGED <<text, clsVars, chunkVars, labVars, extVars, batchVars, process_btn,
                   selected_files, self_extractor, extractors>>

\* process_pdf: self.processed_files.append(...); return case_folder, or
\* return None
WorkerReturn(w) ==
    /\ workers[w].pc = "process_pdf"
    /\ extractors' =
          IF Processes(workers[w].files[workers[w].idx])
          THEN [extractors EXCEPT ![workers[w].extractor] =
                    Append(@, Basename(workers[w].files[workers[w].idx].path))]
          ELSE extractors
    /\ workers' = [workers EXCEPT ![w].result = Processes(workers[w].files[workers[w].idx]),
                                  ![w].pc = "called"]
    /\ UNCHANGED <<text, clsVars, chunkVars, labVars, extVars, batchVars, process_btn,
                   selected_files, self_extractor>>

\* worker: if result: last_processed = self.extractor.processed_files[-1];
\* an empty list raises IndexError and the thread ends
WorkerRead(w) ==
    /\ workers[w].pc = "called"
    /\ workers' =
          IF ~workers[w].result
          THEN [workers EXCEPT ![w].idx = @ + 1, ![w].pc = "loop"]
          ELSE IF extractors[self_extractor] = <<>>
          THEN [workers EXCEPT ![w].pc = "died"]
          ELSE [workers EXCEPT ![w].last_processed =
                                   extractors[self_extractor][Len(extractors[self_extractor])],
                               ![w].idx = @ + 1, ![w].pc = "loop"]
    /\ UNCHANGED <<text, clsVars, chunkVars, labVars, extVars, batchVars, process_btn,
                   selected_files, self_extractor, extractors>>

\* worker: self.extractor.create_master_report() after the loop, and the
\* message box
WorkerReport(w) ==
    /\ workers[w].pc = "loop"
    /\ workers[w].idx > Len(workers[w].files)
    /\ workers' = [workers EXCEPT ![w].pc = "ask"]
    /\ UNCHANGED <<text, clsVars, chunkVars, labVars, extVars, batchVars, process_btn,
                   selected_files, self_extractor, extractors>>

\* worker: self.process_btn.config(state='normal')
WorkerEnable(w) ==
    /\ workers[w].pc = "ask"
    /\ process_btn' = "normal"
    /\ workers' = [workers EXCEPT ![w].pc = "done"]
    /\ UNCHANGED <<text, clsVars, chunkVars, labVars, extVars, batchVars, selected_files,
                   self_extractor, extractors>>

NextGui ==
    \/ SelectFiles
    \/ ProcessFiles
    \/ \E w \in 1..Len(workers) : WorkerNew(w)
    \/ \E w \in 1..Len(workers) : WorkerFor(w)
    \/ \E w \in 1..Len(workers) : WorkerCall(w)
    \/ \E w \in 1..Len(workers) : WorkerReturn(w)
    \/ \E w \in 1..Len(workers) : WorkerRead(w)
    \/ \E w \in 1..Len(workers) : WorkerReport(w)
    \/ \E w \in 1..Len(workers) : WorkerEnable(w)

SpecGui == InitGui /\ [][NextGui]_vars

----------------------------------------------------------------------------
(* Properties of the GUI, under SpecGui                                    *)

\* C25: from the start of a worker until it has finished the Process button
\* stays disabled, whatever the user does meanwhile, so at most one worker
\* runs at a time and self.extractor is not replaced while a worker is
\* between its call of process_pdf and its read of processed_files[-1].
GuiMutualExclusion ==
    /\ (\E w \in 1..Len(workers) : Running(w)) => process_btn = "disabled"
    /\ Cardinality({w \in 1..Len(workers) : Running(w)}) <= 1
    /\ \A w \in 1..Len(workers) :
          workers[w].pc \in {"process_pdf", "called"} =>
              self_extractor = workers[w].extractor

\* a second worker replaced self.extractor, and the first worker's read of
\* processed_files[-1] raised IndexError on the new, empty list
WorkerDied == \E w \in 1..Len(workers) : workers[w].pc = "died"

====
